---- MODULE Spec2Model ----
(***************************************************************************)
(* Verification model of the security-event ETL pipeline:                  *)
(*   - validate_raw_event       (src/src/validation/validation_raw_events) *)
(*   - the record builders      (src/src/transform/schema_definitions)     *)
(*   - run_transform_for_batch  (src/src/transform/transform_security_...) *)
(*   - extract_data             (src/src/extract/extract_security_events)  *)
(*   - validate_transformation  (src/src/transform/validate_transform)     *)
(*   - the mock ingestion API   (src/src/api/mock_api, mock_event_gene...) *)
(*   - load_json_to_postgres    (src/src/load/load_to_postgres)            *)
(*                                                                         *)
(* A Python value is a record [t, s, n]: t is the runtime type, s the text *)
(* of a str as a sequence of symbols (blocks of characters), n the number  *)
(* of an int, or the wall-clock second spelled by the date-time block of a *)
(* timestamp string.  A mapping is a function from Keys to values in which *)
(* Absent marks a key the mapping does not hold.                           *)
(***************************************************************************)
EXTENDS Integers, Sequences, FiniteSets, TLC

VARIABLES
    data,            \* validate_raw_event: the caller's mapping (mutated in place)
    orig,            \* snapshot of the mapping as the caller passed it
    raw_in,          \* the upstream (API-named) record `data` was built from
    outcome,         \* validate_raw_event: [st, etype, msg] ("none" before the call)
    now,             \* the instant sampled at line 165 of validate_raw_event
    clock,           \* the system clock (seconds)
    vpc,             \* position of the single-record caller
    first,           \* the result of the first call when the validator is called again
    all_events,      \* batch driver: the batch of raw records (load: the raw files)
    idx,             \* batch driver: number of records (load: files) consumed
    valid_events,    \* batch driver: valid_events / valid_records
    invalid_events,  \* batch driver: invalid_events / invalid_records
    canonical_event, \* run_transform_for_batch: the local canonical_event
    bpc,             \* batch driver: position
    raised,          \* batch driver: the exception that left the driver ("" if none)
    driver,          \* which driver runs: "transform", "extract", "load" or "none"
    outputs,         \* batch driver: what has been written (files, S3 objects, commit)
    event_store,     \* mock API: the in-memory event_store
    response,        \* mock API: the last request and its response
    issued,          \* mock API: number of event identifiers generated so far
    db,              \* database: the rows of the committed transactions
    calls            \* database and S3: the calls made on them, in order

recordVars == <<data, orig, raw_in, outcome, now, vpc, first>>
batchVars  == <<all_events, idx, valid_events, invalid_events, canonical_event, bpc,
                raised, driver, outputs>>
apiVars    == <<event_store, response, issued>>
dbVars     == <<db, calls>>
vars == <<recordVars, clock, batchVars, apiVars, dbVars>>

----------------------------------------------------------------------------
(* Bounds of the model *)

\* at most this many fields of an input record deviate from the base record
MaxDeviations == 2
\* the clock advances at most this many seconds between two samples
MaxTick == 1
\* records per batch
MaxBatch == 2

----------------------------------------------------------------------------
(* Program constants *)

SecondsPerDay == 86400
RetentionDays == 90
MaxEventIdLen == 128
MinIpLen == 7
MaxIpLen == 15
MaxEventTypeLen == 50
MaxSeverityLen == 10
MaxMessageLen == 2000
MaxPayloadLen == 50000
MaxOctet == 255

----------------------------------------------------------------------------
(* Python values *)

Str(seq)      == [t |-> "str", s |-> seq, n |-> 0]
TimeStr(seq, w) == [t |-> "str", s |-> seq, n |-> w]
IntV(k)       == [t |-> "int", s |-> <<>>, n |-> k]
\* a datetime whose tzinfo is timezone.utc
DateTimeV(w)  == [t |-> "datetime", s |-> <<"+00:00">>, n |-> w]
None          == [t |-> "none", s |-> <<>>, n |-> 0]
Obj           == [t |-> "obj", s |-> <<>>, n |-> 0]
Absent        == [t |-> "absent", s |-> <<>>, n |-> 0]

required_fields == <<"event_id", "event_time", "source_ip", "destination_ip",
                     "event_type", "severity", "message">>

optional_string_fields == <<"host", "device_id", "username", "application",
                            "platform", "vendor">>

allowed_severity == {"low", "medium", "high", "critical"}

allowed_event_types == {"unauthorized_login", "malware_detected", "port_scan",
    "brute_force", "policy_violation", "dns_tunnel_detected", "data_exfiltration",
    "unauthorized_access", "phishing_click", "firewall_block"}

\* keys the upstream API uses (extract_data's required_fields)
api_required_fields == <<"event_id", "timestamp", "source_ip", "destination_ip",
                         "event_type", "severity", "description">>

Range(f) == {f[i] : i \in DOMAIN f}

Keys == Range(required_fields) \cup Range(optional_string_fields)
        \cup {"raw_payload", "batch_id", "timestamp", "description",
              "normalized_at", "severity_level", "category",
              "normalized_message", "processed_at"}

EmptyMap == [k \in Keys |-> Absent]

\* a Python object handed to the pipeline: a dict, or something that is not one
Dict(f)  == [kind |-> "dict", f |-> f]
NonDict(kind) == [kind |-> kind, f |-> EmptyMap]

Has(d, k) == d.f[k] # Absent                       \* k in d
Get(d, k) == IF Has(d, k) THEN d.f[k] ELSE None    \* d.get(k)
Put(d, k, v) == [d EXCEPT !.f[k] = v]              \* d[k] = v
IsEmptyDict(d) == \A k \in Keys : ~Has(d, k)       \* not d

----------------------------------------------------------------------------
(* str operations *)

WS == " "

RECURSIVE LStrip(_)
LStrip(seq) == IF seq # <<>> /\ Head(seq) = WS THEN LStrip(Tail(seq)) ELSE seq

RECURSIVE RStrip(_)
RStrip(seq) == IF seq # <<>> /\ seq[Len(seq)] = WS
               THEN RStrip(SubSeq(seq, 1, Len(seq) - 1)) ELSE seq

\* str.strip()
Strip(seq) == RStrip(LStrip(seq))

\* str.lower() on one block of characters
LowerSym(c) ==
    CASE c = "UNAUTHORIZED_LOGIN" -> "unauthorized_login"
      [] c = "UNKNOWN_TYPE"       -> "unknown_type"
      [] c = "HIGH"               -> "high"
      [] c = "High"               -> "high"
      [] c = "Web-01"             -> "web-01"
      [] c = "BAD_TIMESTAMP"      -> "bad_timestamp"
      [] c = "YYYY-MM-DDTHH:MM:SS" -> "yyyy-mm-ddthh:mm:ss"
      [] c = "Z"                  -> "z"
      [] OTHER                    -> c

\* str.lower()
Lower(seq) == [i \in DOMAIN seq |-> LowerSym(seq[i])]

\* generate_unique_event_id(): "evt_" and eight hexadecimal digits
UniqueIds == <<"evt_00000001", "evt_00000002", "evt_00000003", "evt_00000004",
               "evt_00000005", "evt_00000006", "evt_00000007", "evt_00000008">>

\* number of characters of one block
SymLen(c) ==
    CASE c = WS                    -> 1
      [] c \in Range(UniqueIds)    -> 12
      [] c = "evt_1"               -> 5
      [] c = "x128"                -> 128
      [] c = "y"                   -> 1
      [] c = "m2000"               -> 2000
      [] c = "test"                -> 4
      [] c = "No message provided" -> 19
      [] c = "45.19.34.10"         -> 11
      [] c = "10.0.0.5"            -> 8
      [] c = "1.0.0.1"             -> 7
      [] c = "223.255.255.254"     -> 15
      [] c = "192.168.255.254"     -> 15
      [] c = "medium"              -> 6
      [] c = "critical"            -> 8
      [] c = "Failed SSH login attempt detected."          -> 34
      [] c = "Suspicious port scanning activity observed." -> 43
      [] c = "999.999.999.999"     -> 15
      [] c = "1.2.3"               -> 5
      [] c = "unauthorized_login"  -> 18
      [] c = "port_scan"           -> 9
      [] c = "not_a_real_type"     -> 15
      [] c = "unknown_type"        -> 12
      [] c = "high"                -> 4
      [] c = "low"                 -> 3
      [] c = "urgent"              -> 6
      [] c = "3"                   -> 1
      [] c = "{json}"              -> 6
      [] c = "{not json"           -> 9
      [] c = "{json50001}"         -> 50001
      [] OTHER                     -> 8

RECURSIVE StrLen(_)
\* len(str)
StrLen(seq) == IF seq = <<>> THEN 0 ELSE SymLen(Head(seq)) + StrLen(Tail(seq))

\* str(int)
IntStr(k) == IF k = 3 THEN <<"3">> ELSE <<"0">>

\* str(value) for the values validate_raw_event converts (lines 114-120, 148)
PyStr(v) ==
    CASE v.t = "str"      -> v
      [] v.t = "int"      -> Str(IntStr(v.n))
      [] v.t = "datetime" -> TimeStr(<<"YYYY-MM-DD HH:MM:SS">> \o v.s, v.n)
      [] OTHER            -> Str(<<"None">>)

StripV(v) == [v EXCEPT !.s = Strip(v.s)]
LowerV(v) == [v EXCEPT !.s = Lower(v.s)]

----------------------------------------------------------------------------
(* validate_raw_event *)

\* the result of a call: the mapping as the call left it, and how it ended
Returned(d, tnow) == [data |-> d, st |-> "ok", etype |-> "", msg |-> <<>>, now |-> tnow]
Raise(d, m, tnow) == [data |-> d, st |-> "error", etype |-> "ValueError", msg |-> m,
                      now |-> tnow]
NotSampled == 0 - 1

\* variant: only the first missing field is reported
MissingRequired_FirstOnly(d) ==
    LET m == SelectSeq(required_fields, LAMBDA k : ~Has(d, k)) IN
    IF m = <<>> THEN <<>> ELSE <<Head(m)>>

\* "missing = [field for field in required_fields if field not in data]"
MissingRequired(d) == SelectSeq(required_fields, LAMBDA k : ~Has(d, k))

RECURSIVE NormalizeOptionalFrom(_, _)
\* step 3, fields i.. of optional_string_fields: [data, msg]; msg # <<>> is the raise
NormalizeOptionalFrom(d, i) ==
    IF i > Len(optional_string_fields) THEN [data |-> d, msg |-> <<>>]
    ELSE LET k == optional_string_fields[i] IN
         IF Has(d, k)
         THEN IF d.f[k].t # "str"
              THEN [data |-> d, msg |-> <<k, "must be a string">>]
              ELSE NormalizeOptionalFrom(Put(d, k, LowerV(StripV(d.f[k]))), i + 1)
         ELSE NormalizeOptionalFrom(Put(d, k, None), i + 1)

NormalizeOptional(d) == NormalizeOptionalFrom(d, 1)

\* step 4: the message of the first type check that fails, <<>> if none does
TypeCheck(d) ==
    CASE d.f["event_id"].t # "str" -> <<"event_id must be a string">>
      [] d.f["event_time"].t \notin {"str", "datetime"} ->
                                  <<"event_time must be a string or datetime">>
      [] d.f["source_ip"].t # "str" -> <<"source_ip must be a string">>
      [] d.f["destination_ip"].t # "str" -> <<"destination_ip must be a string">>
      [] d.f["event_type"].t # "str" -> <<"event_type must be a string">>
      [] d.f["severity"].t \notin {"str", "int"} ->
                                  <<"severity must be a string or integer">>
      [] d.f["message"].t # "str" -> <<"message must be a string">>
      [] OTHER -> <<>>

\* json.loads accepts the text
IsJsonText(seq) == seq \in {<<"{json}">>, <<"{json50001}">>}

\* str(raw_payload): the text of a str, the repr of a parsed object
PayloadText(v) == IF v.t = "str" THEN v.s ELSE <<"{json}">>

\* step 5
PayloadCheck(d) ==
    IF Has(d, "raw_payload") /\ d.f["raw_payload"].t # "none"
    THEN LET p == d.f["raw_payload"] IN
         IF p.t = "str" /\ ~IsJsonText(p.s)
            THEN <<"raw_payload is not valid JSON">>
         ELSE IF p.t = "nonserializable"
            THEN <<"raw_payload contains non-serializable data">>
         ELSE IF StrLen(PayloadText(p)) > MaxPayloadLen
            THEN <<"raw_payload is too large">>
         ELSE <<>>
    ELSE <<>>

\* variant: event_type and severity keep their letter case
NormalizeRequired_NoLower(d) ==
    [d EXCEPT !.f["event_id"]       = StripV(PyStr(@)),
              !.f["event_time"]     = StripV(PyStr(@)),
              !.f["source_ip"]      = StripV(PyStr(@)),
              !.f["destination_ip"] = StripV(PyStr(@)),
              !.f["event_type"]     = StripV(PyStr(@)),
              !.f["severity"]       = StripV(PyStr(@)),
              !.f["message"]        = StripV(PyStr(@))]

\* step 6: str(...).strip(), and .lower() for event_type and severity
NormalizeRequired(d) ==
    [d EXCEPT !.f["event_id"]       = StripV(PyStr(@)),
              !.f["event_time"]     = StripV(PyStr(@)),
              !.f["source_ip"]      = StripV(PyStr(@)),
              !.f["destination_ip"] = StripV(PyStr(@)),
              !.f["event_type"]     = LowerV(StripV(PyStr(@))),
              !.f["severity"]       = LowerV(StripV(PyStr(@))),
              !.f["message"]        = StripV(PyStr(@))]

\* step 7: the fields are checked in the order of required_fields
EmptyRequired(d) == SelectSeq(required_fields, LAMBDA k : d.f[k].s = <<>>)

NonEmptyCheck(d) ==
    IF EmptyRequired(d) # <<>> THEN <<Head(EmptyRequired(d)), "does NOT exist">> ELSE <<>>

----------------------------------------------------------------------------
(* step 8: timestamp text *)

DateTimeBlocks == {"YYYY-MM-DDTHH:MM:SS", "YYYY-MM-DD HH:MM:SS"}
OffsetBlocks   == {"+00:00", "+05:00", "-05:00"}

\* blocks of characters that hold a "+", and those that hold a capital "T"
HasPlus(seq) == \E i \in DOMAIN seq : seq[i] \in {"+00:00", "+05:00"}
HasT(seq)    == \E i \in DOMAIN seq :
                    seq[i] \in {"YYYY-MM-DDTHH:MM:SS", "BAD_TIMESTAMP", "UNKNOWN_TYPE",
                                "UNAUTHORIZED_LOGIN"}

EndsWithZ(seq) == seq # <<>> /\ seq[Len(seq)] = "Z"
ReplaceZ(seq)  == [i \in DOMAIN seq |-> IF seq[i] = "Z" THEN "+00:00" ELSE seq[i]]

\* variant: a trailing "Z" is left in place
NormalizeTimestampText_KeepZ(seq) ==
    LET a == Strip(seq)
    IN  IF ~HasPlus(a) /\ HasT(a) THEN a \o <<"+00:00">> ELSE a

\* lines 148-156: the text handed to datetime.fromisoformat
NormalizeTimestampText(seq) ==
    LET a == Strip(seq)
        b == IF EndsWithZ(a) THEN ReplaceZ(a) ELSE a
    IN  IF ~HasPlus(b) /\ HasT(b) THEN b \o <<"+00:00">> ELSE b

\* datetime.fromisoformat accepts: a date-time, optionally followed by one offset
IsoParses(seq) ==
    \/ Len(seq) = 1 /\ seq[1] \in DateTimeBlocks
    \/ Len(seq) = 2 /\ seq[1] \in DateTimeBlocks /\ seq[2] \in OffsetBlocks

\* line 164: replace(tzinfo=utc) keeps the wall-clock reading and drops the offset
ParsedTimestamp(v) == v.n

\* variant: a day that has begun counts
ElapsedDays_RoundedUp(tnow, ts) == (tnow - ts + SecondsPerDay - 1) \div SecondsPerDay

\* step 9: (now - parsed).days is the floor of the difference in days
ElapsedDays(tnow, ts) == (tnow - ts) \div SecondsPerDay

\* variant: an event at the very instant of the check counts as future
TimestampRules_Inclusive(ts, tnow) ==
    IF ts >= tnow THEN <<"timestamp cannot be from the future">>
    ELSE IF ElapsedDays(tnow, ts) > RetentionDays
         THEN <<"timestamp is older than 90 days">>
    ELSE <<>>

\* variant: the staleness check reads the clock again, MaxTick later
TimestampRules_Resampled(ts, tnow) ==
    IF ts > tnow THEN <<"timestamp cannot be from the future">>
    ELSE IF ElapsedDays(tnow + MaxTick, ts) > RetentionDays
         THEN <<"timestamp is older than 90 days">>
    ELSE <<>>

\* lines 167-171: both rules compare with the one reading now
TimestampRules(ts, tnow) ==
    IF ts > tnow THEN <<"timestamp cannot be from the future">>
    ELSE IF ElapsedDays(tnow, ts) > RetentionDays
         THEN <<"timestamp is older than 90 days">>
    ELSE <<>>

----------------------------------------------------------------------------
(* steps 10-12 *)

\* the numbers between the dots of an address block (<<>>: not dotted numbers)
IpOctets(c) ==
    CASE c = "45.19.34.10"     -> <<45, 19, 34, 10>>
      [] c = "10.0.0.5"        -> <<10, 0, 0, 5>>
      [] c = "1.0.0.1"         -> <<1, 0, 0, 1>>
      [] c = "223.255.255.254" -> <<223, 255, 255, 254>>
      [] c = "192.168.255.254" -> <<192, 168, 255, 254>>
      [] c = "999.999.999.999" -> <<999, 999, 999, 999>>
      [] c = "1.2.3"           -> <<1, 2, 3>>
      [] OTHER                 -> <<>>

\* variant: four dotted numbers of any size match
MatchesIPv4_AnyOctet(seq) ==
    /\ Len(seq) = 1
    /\ Len(IpOctets(seq[1])) = 4

\* ipv4_pattern.match
MatchesIPv4(seq) ==
    /\ Len(seq) = 1
    /\ Len(IpOctets(seq[1])) = 4
    /\ \A i \in 1..4 : IpOctets(seq[1])[i] \in 0..MaxOctet

IPv4Check(d) ==
    IF ~MatchesIPv4(d.f["source_ip"].s)
       THEN <<"Invalid source_ip format">> \o d.f["source_ip"].s
    ELSE IF ~MatchesIPv4(d.f["destination_ip"].s)
       THEN <<"Invalid destination_ip format">> \o d.f["destination_ip"].s
    ELSE <<>>

\* membership of a str in a set of words
InWords(seq, words) == Len(seq) = 1 /\ seq[1] \in words

DomainCheck(d) ==
    IF ~InWords(d.f["severity"].s, allowed_severity) THEN <<"Invalid severity type">>
    ELSE IF ~InWords(d.f["event_type"].s, allowed_event_types)
         THEN <<"Invalid event type">>
    ELSE <<>>

\* variant: the upper bound is exclusive
Between_Exclusive(lo, x, hi) == lo <= x /\ x < hi

\* lo <= x <= hi
Between(lo, x, hi) == lo <= x /\ x <= hi

LengthCheck(d) ==
    CASE ~Between(1, StrLen(d.f["event_id"].s), MaxEventIdLen) ->
            <<"event_id length must be between 1 and 128 characters">>
      [] ~Between(MinIpLen, StrLen(d.f["source_ip"].s), MaxIpLen) ->
            <<"source_ip length invalid">>
      [] ~Between(MinIpLen, StrLen(d.f["destination_ip"].s), MaxIpLen) ->
            <<"destination_ip length invalid">>
      [] ~Between(1, StrLen(d.f["event_type"].s), MaxEventTypeLen) ->
            <<"event_type length must be between 1 and 50 characters">>
      [] ~Between(1, StrLen(d.f["severity"].s), MaxSeverityLen) ->
            <<"severity length must be between 1 and 10 characters">>
      [] ~Between(1, StrLen(d.f["message"].s), MaxMessageLen) ->
            <<"message length must be between 1 and 2000 characters">>
      [] OTHER -> <<>>

\* variant: processed_at is stamped without tzinfo
Enrich_NaiveProcessedAt(d, tnorm, tproc) ==
    [d EXCEPT !.f["normalized_at"] = TimeStr(<<"YYYY-MM-DDTHH:MM:SS", "+00:00">>, tnorm),
              !.f["severity_level"] = d.f["severity"],
              !.f["category"] = d.f["event_type"],
              !.f["normalized_message"] = StripV(d.f["message"]),
              !.f["processed_at"] = [t |-> "datetime", s |-> <<>>, n |-> tproc]]

\* steps 13-14
Enrich(d, tnorm, tproc) ==
    [d EXCEPT !.f["normalized_at"] = TimeStr(<<"YYYY-MM-DDTHH:MM:SS", "+00:00">>, tnorm),
              !.f["severity_level"] = d.f["severity"],
              !.f["category"] = d.f["event_type"],
              !.f["normalized_message"] = StripV(d.f["message"]),
              !.f["processed_at"] = DateTimeV(tproc)]

\* variant: the address, domain and length checks run before the timestamp rules
AfterParse_StructuralFirst(d, tnow, tnorm, tproc) ==
    LET rules == TimestampRules(ParsedTimestamp(d.f["event_time"]), tnow) IN
    IF IPv4Check(d) # <<>> THEN Raise(d, IPv4Check(d), tnow)
    ELSE IF DomainCheck(d) # <<>> THEN Raise(d, DomainCheck(d), tnow)
    ELSE IF LengthCheck(d) # <<>> THEN Raise(d, LengthCheck(d), tnow)
    ELSE IF rules # <<>> THEN Raise(d, rules, tnow)
    ELSE Returned(Enrich(d, tnorm, tproc), tnow)

\* the checks that follow the parse of the timestamp, in the order of the code
AfterParse(d, tnow, tnorm, tproc) ==
    LET rules == TimestampRules(ParsedTimestamp(d.f["event_time"]), tnow) IN
    IF rules # <<>> THEN Raise(d, rules, tnow)
    ELSE IF IPv4Check(d) # <<>> THEN Raise(d, IPv4Check(d), tnow)
    ELSE IF DomainCheck(d) # <<>> THEN Raise(d, DomainCheck(d), tnow)
    ELSE IF LengthCheck(d) # <<>> THEN Raise(d, LengthCheck(d), tnow)
    ELSE Returned(Enrich(d, tnorm, tproc), tnow)

\* steps 4-8 on a mapping that holds every required field
AfterOptional(d, tnow, tnorm, tproc) ==
    IF TypeCheck(d) # <<>> THEN Raise(d, TypeCheck(d), NotSampled)
    ELSE IF PayloadCheck(d) # <<>> THEN Raise(d, PayloadCheck(d), NotSampled)
    ELSE LET e == NormalizeRequired(d) IN
         IF NonEmptyCheck(e) # <<>> THEN Raise(e, NonEmptyCheck(e), NotSampled)
         ELSE IF ~IsoParses(NormalizeTimestampText(e.f["event_time"].s))
              THEN Raise(e, <<"Invalid event_time format">> \o e.f["event_time"].s,
                         NotSampled)
         ELSE AfterParse(e, tnow, tnorm, tproc)

\* validate_raw_event(data); tnow, tnorm, tproc are the clock readings of
\* lines 165, 214 and 230
validate_raw_event(d, tnow, tnorm, tproc) ==
    IF d.kind # "dict" THEN Raise(d, <<"Data must be a dictionary">>, NotSampled)
    ELSE IF IsEmptyDict(d) THEN Raise(d, <<"JSON object is empty">>, NotSampled)
    ELSE IF MissingRequired(d) # <<>>
         THEN Raise(d, <<"Missing required fields">> \o MissingRequired(d), NotSampled)
    ELSE LET o == NormalizeOptional(d) IN
         IF o.msg # <<>> THEN Raise(o.data, o.msg, NotSampled)
         ELSE AfterOptional(o.data, tnow, tnorm, tproc)

----------------------------------------------------------------------------
(* record builders, schema_definitions.py *)

\* Python truth value of a value ("x or default")
Truthy(v) ==
    CASE v.t \in {"none", "absent"} -> FALSE
      [] v.t = "str" -> v.s # <<>>
      [] v.t = "int" -> v.n # 0
      [] OTHER -> TRUE

BatchId == Str(<<"batch_1">>)

\* build_raw_security_log(event, batch_id); event is a dict
build_raw_security_log(event, batch_id) ==
    Dict([EmptyMap EXCEPT
        !["batch_id"]       = batch_id,
        !["event_id"]       = Get(event, "event_id"),
        !["event_time"]     = Get(event, "timestamp"),
        !["source_ip"]      = Get(event, "source_ip"),
        !["destination_ip"] = Get(event, "destination_ip"),
        !["event_type"]     = Get(event, "event_type"),
        !["severity"]       = Get(event, "severity"),
        !["message"]        = IF Truthy(Get(event, "description"))
                              THEN Get(event, "description")
                              ELSE Str(<<"No message provided">>),
        !["raw_payload"]    = Str(<<"{json}">>)])

\* build_staging_parsed_event(event)
build_staging_parsed_event(event) ==
    [event_id |-> event.f["event_id"], event_time |-> event.f["event_time"],
     source_ip |-> event.f["source_ip"], destination_ip |-> event.f["destination_ip"],
     event_type |-> event.f["event_type"], severity_level |-> event.f["severity_level"],
     category |-> event.f["category"],
     normalized_message |-> event.f["normalized_message"],
     processed_at |-> event.f["processed_at"]]

\* variant: the class name is replaced by a fixed label
ErrorTypeName_Generic(err) == "ValidationError"

\* type(error).__name__
ErrorTypeName(err) == err.etype

\* build_validation_error_record(event, error); event is a dict
build_validation_error_record(event, err, tlog) ==
    [event_id |-> Get(event, "event_id"), event_time |-> Get(event, "event_time"),
     source_ip |-> Get(event, "source_ip"),
     destination_ip |-> Get(event, "destination_ip"),
     raw_event |-> event, error_type |-> ErrorTypeName(err),
     error_message |-> err.msg, logged_at |-> tlog]

----------------------------------------------------------------------------
(* the records the environment supplies *)

\* the clock when a run starts, and the instants event times are drawn from
Now0 == 100 * SecondsPerDay
Retention == RetentionDays * SecondsPerDay

EventWalls == {Now0 - 3600, Now0, Now0 + 1, Now0 - Retention, Now0 - Retention - 1,
               Now0 - Retention - SecondsPerDay + 1, Now0 - Retention - SecondsPerDay}

TimeZ(w)     == TimeStr(<<"YYYY-MM-DDTHH:MM:SS", "Z">>, w)
TimeNaive(w) == TimeStr(<<"YYYY-MM-DDTHH:MM:SS">>, w)
TimeUtc(w)   == TimeStr(<<"YYYY-MM-DDTHH:MM:SS", "+00:00">>, w)

TimeAlternatives ==
    {TimeZ(w) : w \in EventWalls}
    \cup {TimeNaive(Now0), TimeNaive(Now0 - Retention - SecondsPerDay),
          TimeUtc(Now0 + 1), TimeUtc(Now0 - Retention),
          TimeStr(<<"YYYY-MM-DDTHH:MM:SS", "+05:00">>, Now0 - 3600),
          TimeStr(<<"YYYY-MM-DDTHH:MM:SS", "-05:00">>, Now0 - 3600),
          TimeStr(<<"YYYY-MM-DD HH:MM:SS">>, Now0 - 3600),
          Str(<<"BAD_TIMESTAMP">>), DateTimeV(Now0 - 3600), IntV(3), Absent}

IdAlternatives ==
    {Absent, None, Str(<<>>), Str(<<" ", "evt_1", " ">>), Str(<<"x128", " ">>),
     Str(<<"x128", "y">>)}

SourceIpAlternatives ==
    {Absent, None, Str(<<"999.999.999.999">>), Str(<<"1.2.3">>), Str(<<" ", "10.0.0.5">>)}

DestinationIpAlternatives == {Absent, IntV(3), Str(<<"999.999.999.999">>)}

TypeAlternatives ==
    {Absent, Str(<<"UNAUTHORIZED_LOGIN">>), Str(<<"port_scan">>),
     Str(<<"not_a_real_type">>), Str(<<"UNKNOWN_TYPE">>)}

SeverityAlternatives ==
    {Absent, IntV(3), Str(<<"HIGH">>), Str(<<" ", "High", " ">>), Str(<<"urgent">>)}

TextAlternatives ==
    {Absent, Str(<<>>), Str(<<" ">>), Str(<<"m2000">>), Str(<<"m2000", "y">>)}

HostAlternatives == {None, IntV(3), Obj, Str(<<" ", "Web-01">>)}

VendorAlternatives == {None, Str(<<"Web-01">>)}

PayloadAlternatives ==
    {None, Str(<<"{json}">>), Str(<<"{not json">>), Str(<<"{json50001}">>)}

\* the values a producer may put under key k
Alternatives(k) ==
    CASE k = "event_id" -> IdAlternatives
      [] k \in {"event_time", "timestamp"} -> TimeAlternatives
      [] k = "source_ip" -> SourceIpAlternatives
      [] k = "destination_ip" -> DestinationIpAlternatives
      [] k = "event_type" -> TypeAlternatives
      [] k = "severity" -> SeverityAlternatives
      [] k \in {"message", "description"} -> TextAlternatives
      [] k = "raw_payload" -> PayloadAlternatives
      [] k = "host" -> HostAlternatives
      [] OTHER -> VendorAlternatives

\* a well-formed record under the pipeline's names, and one under the API's names
BaseCanonical ==
    Dict([EmptyMap EXCEPT
        !["event_id"] = Str(<<"evt_1">>), !["event_time"] = TimeZ(Now0 - 3600),
        !["source_ip"] = Str(<<"45.19.34.10">>),
        !["destination_ip"] = Str(<<"10.0.0.5">>),
        !["event_type"] = Str(<<"unauthorized_login">>),
        !["severity"] = Str(<<"high">>), !["message"] = Str(<<"test">>)])

BaseApi ==
    Dict([EmptyMap EXCEPT
        !["event_id"] = Str(<<"evt_1">>), !["timestamp"] = TimeZ(Now0 - 3600),
        !["source_ip"] = Str(<<"45.19.34.10">>),
        !["destination_ip"] = Str(<<"10.0.0.5">>),
        !["event_type"] = Str(<<"unauthorized_login">>),
        !["severity"] = Str(<<"high">>), !["description"] = Str(<<"test">>)])

ApiUpperCase == Put(Put(BaseApi, "event_type", Str(<<"UNAUTHORIZED_LOGIN">>)),
                    "severity", Str(<<"HIGH">>))

CanonicalKeys == Range(required_fields) \cup {"host", "vendor", "raw_payload"}
ApiKeys       == Range(api_required_fields)

RECURSIVE Deviations(_, _, _)
\* the records that differ from base in at most n of the keys ks
Deviations(base, ks, n) ==
    IF n = 0 THEN {base}
    ELSE LET prev == Deviations(base, ks, n - 1) IN
         prev \cup {Put(r, k, v) : r \in prev, <<k, v>> \in
                        UNION {{<<kk, vv>> : vv \in Alternatives(kk)} : kk \in ks}}

NotADict == {NonDict("int"), NonDict("list"), NonDict("str")}

\* a well-formed record that carries every optional metadata field
WithAllOptional ==
    [BaseCanonical EXCEPT !.f["host"] = Str(<<" ", "Web-01">>),
                          !.f["device_id"] = Str(<<"web-01">>),
                          !.f["username"] = Str(<<"web-01">>),
                          !.f["application"] = Str(<<"web-01">>),
                          !.f["platform"] = Str(<<"web-01">>),
                          !.f["vendor"] = Str(<<"Web-01">>)]

CanonicalInputs ==
    Deviations(BaseCanonical, CanonicalKeys, MaxDeviations)
    \cup NotADict \cup {Dict(EmptyMap), Dict([EmptyMap EXCEPT !["host"] = Str(<<"web-01">>)])}
    \cup {WithAllOptional, Put(WithAllOptional, "severity", Str(<<" ", "High", " ">>))}

\* upstream records: the base record, or the one whose type and severity are in
\* capitals, with up to MaxDeviations - 1 further keys changed
ApiInputs == Deviations(BaseApi, ApiKeys, MaxDeviations - 1)
             \cup Deviations(ApiUpperCase, ApiKeys, MaxDeviations - 1)

----------------------------------------------------------------------------
(* one record: build_raw_security_log, then validate_raw_event *)

NoOutcome == [st |-> "none", etype |-> "", msg |-> <<>>]

BatchIdle ==
    /\ all_events = <<>> /\ idx = 0 /\ valid_events = <<>> /\ invalid_events = <<>>
    /\ canonical_event = NonDict("unbound") /\ bpc = "idle" /\ raised = ""
    /\ driver = "none" /\ outputs = {}

\* the validator has not been called a second time
NoFirst == [data |-> NonDict("none"), st |-> "none", now |-> NotSampled]

\* the mock API has served no call
NoResponse == [kind |-> "none", status |-> 0, x_api_key |-> "none", size |-> 0,
               fault_rate |-> <<0, 1>>, valid_events |-> 0, invalid_events |-> 0,
               events |-> <<>>, page |-> 0, limit |-> 0, total |-> 0, unique |-> 0,
               event_id |-> 0, at |-> NotSampled]

ApiIdle == event_store = <<>> /\ response = NoResponse /\ issued = 0

\* no transaction was committed, no call was made
DbIdle == db = {} /\ calls = <<>>

Init ==
    /\ \/ /\ vpc = "start" /\ data \in CanonicalInputs /\ raw_in = NonDict("none")
       \/ /\ vpc = "raw" /\ raw_in \in ApiInputs /\ data = NonDict("none")
    /\ orig = data
    /\ outcome = NoOutcome
    /\ now = NotSampled
    /\ clock = Now0
    /\ first = NoFirst
    /\ BatchIdle /\ ApiIdle /\ DbIdle

\* canonical_event = build_raw_security_log(raw_event, batch_id)
BuildRaw ==
    /\ vpc = "raw"
    /\ data' = build_raw_security_log(raw_in, BatchId)
    /\ orig' = data'
    /\ vpc' = "start"
    /\ UNCHANGED <<raw_in, outcome, now, clock, first, batchVars, apiVars, dbVars>>

\* validate_raw_event(data): the clock may advance between its three readings
Validate ==
    /\ vpc = "start"
    /\ \E t1, t2 \in 0..MaxTick :
         LET r == validate_raw_event(data, clock, clock + t1, clock + t1 + t2) IN
         /\ data' = r.data
         /\ outcome' = [st |-> r.st, etype |-> r.etype, msg |-> r.msg]
         /\ now' = r.now
         /\ clock' = IF r.st = "ok" THEN clock + t1 + t2 ELSE clock
    /\ vpc' = "done"
    /\ UNCHANGED <<orig, raw_in, first, batchVars, apiVars, dbVars>>

\* validate_raw_event(data) once more, on the mapping the first call returned
Revalidate ==
    /\ vpc = "done" /\ outcome.st = "ok"
    /\ \E t1, t2 \in 0..MaxTick :
         LET r == validate_raw_event(data, clock, clock + t1, clock + t1 + t2) IN
         /\ data' = r.data
         /\ outcome' = [st |-> r.st, etype |-> r.etype, msg |-> r.msg]
         /\ now' = r.now
         /\ clock' = IF r.st = "ok" THEN clock + t1 + t2 ELSE clock
    /\ first' = [data |-> data, st |-> outcome.st, now |-> now]
    /\ vpc' = "again"
    /\ UNCHANGED <<orig, raw_in, batchVars, apiVars, dbVars>>

Next == BuildRaw \/ Validate \/ Revalidate

Spec == Init /\ [][Next]_vars

----------------------------------------------------------------------------
(* validate_transformation, validate_transform.py *)

REQUIRED_CANONICAL_FIELDS == <<"event_id", "event_time", "source_ip", "destination_ip",
                               "event_type", "severity">>
REQUIRED_TRANSFORM_FIELDS == <<"severity_level", "category", "normalized_message",
                               "processed_at">>

\* "field not in data or data[field] is None"
MissingOrNone(d, fields) == SelectSeq(fields, LAMBDA k : Get(d, k).t = "none")

\* the processed_at check: a str is parsed first; the tzinfo must be timezone.utc
ProcessedAtCheck(v) ==
    IF v.t = "str" /\ ~IsoParses(v.s)
       THEN <<"processed_at is not a valid ISO datetime">>
    ELSE IF v.t \notin {"str", "datetime"} THEN <<"processed_at must be a datetime">>
    ELSE IF v.s = <<>> \/ v.s[Len(v.s)] # "+00:00"
       THEN <<"processed_at must be timezone-aware and UTC">>
    ELSE <<>>

\* validate_transformation(data): the message of the error raised, <<>> if none
validate_transformation(d) ==
    IF MissingOrNone(d, REQUIRED_CANONICAL_FIELDS) # <<>>
       THEN <<"Canonical field(s) missing after transform">>
            \o MissingOrNone(d, REQUIRED_CANONICAL_FIELDS)
    ELSE IF MissingOrNone(d, REQUIRED_TRANSFORM_FIELDS) # <<>>
       THEN <<"Missing transformed field(s) during post-transform validation">>
            \o MissingOrNone(d, REQUIRED_TRANSFORM_FIELDS)
    ELSE IF d.f["severity_level"] # d.f["severity"]
       THEN <<"severity_level does not match severity">>
    ELSE IF d.f["category"] # d.f["event_type"]
       THEN <<"category does not match event_type">>
    ELSE IF d.f["normalized_message"].t # "str"
       THEN <<"object has no attribute 'strip'">>
    ELSE IF Strip(d.f["normalized_message"].s) = <<>>
       THEN <<"normalized_message is empty">>
    ELSE ProcessedAtCheck(d.f["processed_at"])

\* the class of the exception validate_transformation leaves with: .strip() of a
\* value that is not a str raises AttributeError, every raise statement ValueError
TransformationErrorType(d) ==
    IF validate_transformation(d) = <<"object has no attribute 'strip'">>
    THEN "AttributeError" ELSE "ValueError"

----------------------------------------------------------------------------
(* validate_transformation on the records a transform step may hand to it *)

\* the record validate_raw_event returns for the well-formed record
EnrichedBase == validate_raw_event(BaseCanonical, Now0, Now0, Now0).data

PostKeys == Range(REQUIRED_CANONICAL_FIELDS) \cup Range(REQUIRED_TRANSFORM_FIELDS)

\* what a defective transform may leave under key k
PostAlternatives(k) ==
    CASE k = "severity_level" -> {Absent, None, Str(<<"low">>)}
      [] k = "severity" -> {Absent, None, Str(<<"low">>)}
      [] k = "category" -> {Absent, None, Str(<<"port_scan">>)}
      [] k = "normalized_message" -> {Absent, None, Str(<<>>), Str(<<" ">>), IntV(3)}
      [] k = "processed_at" ->
            {Absent, None, IntV(3),
             [t |-> "datetime", s |-> <<>>, n |-> Now0],
             [t |-> "datetime", s |-> <<"+05:00">>, n |-> Now0],
             TimeUtc(Now0), TimeNaive(Now0), Str(<<"BAD_TIMESTAMP">>),
             TimeStr(<<"YYYY-MM-DDTHH:MM:SS", "+05:00">>, Now0)}
      [] OTHER -> {Absent, None}

RECURSIVE PostDeviations(_, _)
\* the records that differ from base in at most n of the keys the check reads
PostDeviations(base, n) ==
    IF n = 0 THEN {base}
    ELSE LET prev == PostDeviations(base, n - 1) IN
         prev \cup {Put(r, k, v) : r \in prev, <<k, v>> \in
                        UNION {{<<kk, vv>> : vv \in PostAlternatives(kk)} : kk \in PostKeys}}

PostInputs == PostDeviations(EnrichedBase, MaxDeviations)

InitPost ==
    /\ vpc = "post" /\ data \in PostInputs /\ orig = data
    /\ raw_in = NonDict("none") /\ outcome = NoOutcome /\ now = NotSampled
    /\ first = NoFirst /\ clock = Now0
    /\ BatchIdle /\ ApiIdle /\ DbIdle

\* validate_transformation(data)
CheckTransformation ==
    /\ vpc = "post"
    /\ outcome' = IF validate_transformation(data) = <<>>
                  THEN [st |-> "ok", etype |-> "", msg |-> <<>>]
                  ELSE [st |-> "error", etype |-> TransformationErrorType(data),
                        msg |-> validate_transformation(data)]
    /\ vpc' = "post_done"
    /\ UNCHANGED <<data, orig, raw_in, now, first, clock, batchVars, apiVars, dbVars>>

NextPost == CheckTransformation

SpecPost == InitPost /\ [][NextPost]_vars

----------------------------------------------------------------------------
(* the batch drivers: run_transform_for_batch and extract_data *)

ApiUpper    == ApiUpperCase
ApiNoSource == Put(BaseApi, "source_ip", Absent)
ApiBadDest  == Put(BaseApi, "destination_ip", Str(<<"999.999.999.999">>))
ApiBadType  == Put(BaseApi, "event_type", Str(<<"not_a_real_type">>))
\* a record that holds the API's names and the pipeline's names
FullRecord  == Put(Put(BaseApi, "event_time", TimeZ(Now0 - 3600)), "message",
                   Str(<<" ", "test">>))
FullBadIp   == Put(FullRecord, "source_ip", Str(<<"999.999.999.999">>))

BatchRecords == {BaseApi, ApiUpper, ApiNoSource, ApiBadDest, ApiBadType, FullRecord,
                 FullBadIp, NonDict("int"), NonDict("list")}

Batches == UNION {[1..n -> BatchRecords] : n \in 0..MaxBatch}

RecordIdle ==
    /\ data = NonDict("none") /\ orig = NonDict("none") /\ raw_in = NonDict("none")
    /\ outcome = NoOutcome /\ now = NotSampled /\ vpc = "idle" /\ first = NoFirst

InitBatch ==
    /\ RecordIdle
    /\ clock = Now0
    /\ all_events \in Batches
    /\ driver \in {"transform", "extract"}
    /\ idx = 0 /\ valid_events = <<>> /\ invalid_events = <<>>
    /\ canonical_event = NonDict("unbound")
    /\ bpc = (IF driver = "transform" THEN "start" ELSE "loop")
    /\ raised = "" /\ outputs = {}
    /\ ApiIdle /\ DbIdle

\* a call made on S3, the connection or the cursor
Call(op, on, n) == [op |-> op, on |-> on, n |-> n]

Rollback    == Call("rollback", "conn", 0)
Commit      == Call("commit", "conn", 0)
CloseCursor == Call("close", "cursor", 0)
CloseConn   == Call("close", "conn", 0)

\* variant: the cursor and the connection are left open when the loop is left
RollbackAndClose_LeaveOpen == <<Rollback>>

\* lines 147-157: the outer handler rolls back, the finally block closes
RollbackAndClose == <<Rollback, CloseCursor, CloseConn>>

\* lines 66-67 of run_transform_for_batch: get_connection() and conn.cursor(); when
\* get_connection() raises, conn is still None: nothing to roll back or to close
TransformConnect ==
    /\ driver = "transform" /\ bpc = "start"
    /\ \E fail \in {"none", "connect", "cursor"} :
         /\ calls' = CASE fail = "none"    -> <<Call("connect", "conn", 0),
                                                Call("cursor", "conn", 0)>>
                       [] fail = "connect" -> <<>>
                       [] fail = "cursor"  -> <<Call("connect", "conn", 0), Rollback,
                                                CloseConn>>
         /\ bpc' = IF fail = "none" THEN "loop" ELSE "failed"
         /\ raised' = IF fail = "none" THEN "" ELSE "Exception"
    /\ UNCHANGED <<recordVars, clock, all_events, idx, valid_events, invalid_events,
                   canonical_event, driver, outputs, apiVars, db>>

AttributeError(d) == Raise(d, <<"object has no attribute 'get'">>, NotSampled)

\* lines 73-98 of run_transform_for_batch: the body of the per-record try.  The
\* canonicalize/validate/normalize chain is the validator of validation_raw_events.
TransformTry(raw_event, bound, tnow, tnorm, tproc) ==
    IF raw_event.kind # "dict"
    THEN [AttributeError(bound) EXCEPT !.etype = "AttributeError"]
    ELSE LET r == validate_raw_event(build_raw_security_log(raw_event, BatchId),
                                     tnow, tnorm, tproc)
         IN  IF r.st = "ok" /\ validate_transformation(r.data) # <<>>
             THEN Raise(r.data, validate_transformation(r.data), tnow)
             ELSE r

\* lines 110-116: the handler reads raw_event.get("event_id") for its log entry
HandlerRaises(raw_event) == raw_event.kind # "dict"

\* variant of TransformRecord: a rejected record is logged and not recorded
TransformRecord_DropRejected ==
    /\ driver = "transform" /\ bpc = "loop" /\ idx < Len(all_events)
    /\ \E t1, t2 \in 0..MaxTick :
         LET raw_event == all_events[idx + 1]
             r == TransformTry(raw_event, canonical_event, clock, clock + t1,
                               clock + t1 + t2)
         IN  /\ canonical_event' = r.data
             /\ clock' = IF r.st = "ok" THEN clock + t1 + t2 ELSE clock
             /\ IF r.st = "ok"
                THEN /\ valid_events' = Append(valid_events,
                                               build_staging_parsed_event(r.data))
                     /\ idx' = idx + 1
                     /\ UNCHANGED <<invalid_events, bpc, raised, calls>>
                ELSE IF HandlerRaises(raw_event)
                THEN /\ bpc' = "aborted" /\ raised' = "AttributeError"
                     /\ calls' = calls \o RollbackAndClose
                     /\ UNCHANGED <<valid_events, invalid_events, idx>>
                ELSE /\ idx' = idx + 1
                     /\ UNCHANGED <<valid_events, invalid_events, bpc, raised, calls>>
    /\ UNCHANGED <<recordVars, all_events, driver, outputs, apiVars, db>>

\* one iteration of the loop of lines 71-119
TransformRecord ==
    /\ driver = "transform" /\ bpc = "loop" /\ idx < Len(all_events)
    /\ \E t1, t2 \in 0..MaxTick :
         LET raw_event == all_events[idx + 1]
             r == TransformTry(raw_event, canonical_event, clock, clock + t1,
                               clock + t1 + t2)
         IN  /\ canonical_event' = r.data
             /\ clock' = IF r.st = "ok" THEN clock + t1 + t2 ELSE clock
             /\ IF r.st = "ok"
                THEN /\ valid_events' = Append(valid_events,
                                               build_staging_parsed_event(r.data))
                     /\ idx' = idx + 1
                     /\ UNCHANGED <<invalid_events, bpc, raised, calls>>
                ELSE IF HandlerRaises(raw_event)
                THEN \* the handler itself raises: outer except, rollback, re-raise
                     /\ bpc' = "aborted" /\ raised' = "AttributeError"
                     /\ calls' = calls \o RollbackAndClose
                     /\ UNCHANGED <<valid_events, invalid_events, idx>>
                ELSE /\ invalid_events' = Append(invalid_events,
                             build_validation_error_record(r.data, r, clock))
                     /\ idx' = idx + 1
                     /\ UNCHANGED <<valid_events, bpc, raised, calls>>
    /\ UNCHANGED <<recordVars, all_events, driver, outputs, apiVars, db>>

\* transformed_batch_to_s3(data, bucket, key): an empty list is not uploaded
Upload(events, key) == IF events = <<>> THEN <<>> ELSE <<Call("upload", key, Len(events))>>

\* lines 129-133: one cursor.execute per valid event, then one per error record
Inserts ==
    [i \in DOMAIN valid_events |-> Call("execute", "staging.parsed_events", i)]
    \o [i \in DOMAIN invalid_events |-> Call("execute", "staging.validation_errors", i)]

\* the rows a call of cursor.execute adds to the open transaction
Row(call) == [table |-> call.on, id |-> call.n]

\* variant of TransformPersist: the inserts run before the uploads
TransformPersist_InsertFirst ==
    /\ driver = "transform" /\ bpc = "loop" /\ idx = Len(all_events)
    /\ \E fail \in {"none", "s3_valid", "s3_invalid", "insert", "commit"},
          k \in 0..Len(Inserts) :
         /\ fail = "s3_valid" => valid_events # <<>>
         /\ fail = "s3_invalid" => invalid_events # <<>>
         /\ (fail = "insert") <=> (k >= 1)
         /\ outputs' =
              (IF valid_events # <<>> /\ fail \notin {"s3_valid", "insert"}
               THEN {"s3_staging"} ELSE {})
              \cup (IF invalid_events # <<>>
                       /\ fail \notin {"s3_valid", "s3_invalid", "insert"}
                    THEN {"s3_dead_letter"} ELSE {})
              \cup (IF fail = "none" THEN {"db_commit"} ELSE {"db_rollback"})
         /\ calls' = calls
              \o (IF fail = "insert" THEN SubSeq(Inserts, 1, k - 1) ELSE Inserts)
              \o (IF fail \notin {"s3_valid", "insert"}
                  THEN Upload(valid_events, "staging") ELSE <<>>)
              \o (IF fail \notin {"s3_valid", "s3_invalid", "insert"}
                  THEN Upload(invalid_events, "dead_letter") ELSE <<>>)
              \o (IF fail = "none" THEN <<Commit>> ELSE <<Rollback>>)
              \o <<CloseCursor, CloseConn>>
         /\ db' = IF fail = "none" THEN db \cup {Row(c) : c \in Range(Inserts)} ELSE db
         /\ bpc' = IF fail = "none" THEN "done" ELSE "failed"
         /\ raised' = IF fail = "none" THEN "" ELSE "Exception"
    /\ UNCHANGED <<recordVars, clock, all_events, idx, valid_events, invalid_events,
                   canonical_event, driver, apiVars>>

\* lines 126-157: the two uploads (an empty list is skipped), the inserts, the
\* commit; a failure at any of them (for the inserts: at the k-th) rolls back and
\* leaves with the exception; the finally block closes the cursor and the connection
TransformPersist ==
    /\ driver = "transform" /\ bpc = "loop" /\ idx = Len(all_events)
    /\ \E fail \in {"none", "s3_valid", "s3_invalid", "insert", "commit"},
          k \in 0..Len(Inserts) :
         /\ fail = "s3_valid" => valid_events # <<>>
         /\ fail = "s3_invalid" => invalid_events # <<>>
         /\ (fail = "insert") <=> (k >= 1)
         /\ outputs' =
              (IF valid_events # <<>> /\ fail # "s3_valid" THEN {"s3_staging"} ELSE {})
              \cup (IF invalid_events # <<>> /\ fail \notin {"s3_valid", "s3_invalid"}
                    THEN {"s3_dead_letter"} ELSE {})
              \cup (IF fail = "none" THEN {"db_commit"} ELSE {"db_rollback"})
         /\ calls' = calls
              \o (IF fail # "s3_valid" THEN Upload(valid_events, "staging") ELSE <<>>)
              \o (IF fail \notin {"s3_valid", "s3_invalid"}
                  THEN Upload(invalid_events, "dead_letter") ELSE <<>>)
              \o (CASE fail \in {"s3_valid", "s3_invalid"} -> <<>>
                    [] fail = "insert" -> SubSeq(Inserts, 1, k - 1)
                    [] OTHER -> Inserts)
              \o (IF fail = "none" THEN <<Commit>> ELSE <<Rollback>>)
              \o <<CloseCursor, CloseConn>>
         /\ db' = IF fail = "none" THEN db \cup {Row(c) : c \in Range(Inserts)} ELSE db
         /\ bpc' = IF fail = "none" THEN "done" ELSE "failed"
         /\ raised' = IF fail = "none" THEN "" ELSE "Exception"
    /\ UNCHANGED <<recordVars, clock, all_events, idx, valid_events, invalid_events,
                   canonical_event, driver, apiVars>>

\* record.get("event_id", "<no_id>")
RecordId(record) == IF Has(record, "event_id") THEN record.f["event_id"]
                    ELSE Str(<<"<no_id>">>)

MissingApi(record) == SelectSeq(api_required_fields, LAMBDA k : ~Has(record, k))

\* one iteration of the loop of lines 77-105 of extract_data
ExtractRecord ==
    /\ driver = "extract" /\ bpc = "loop" /\ idx < Len(all_events)
    /\ \E t1, t2 \in 0..MaxTick :
         LET record == all_events[idx + 1]
             r == validate_raw_event(record, clock, clock + t1, clock + t1 + t2)
         IN  IF record.kind = "int"
             THEN \* "field not in record" on a number
                  /\ bpc' = "aborted" /\ raised' = "TypeError"
                  /\ UNCHANGED <<clock, valid_events, invalid_events, idx>>
             ELSE IF record.kind # "dict"
             THEN \* a list or str: every field is missing, record.get does not exist
                  /\ bpc' = "aborted" /\ raised' = "AttributeError"
                  /\ UNCHANGED <<clock, valid_events, invalid_events, idx>>
             ELSE IF MissingApi(record) # <<>>
             THEN /\ invalid_events' = Append(invalid_events,
                        [record_id |-> RecordId(record),
                         missing_keys |-> MissingApi(record),
                         error |-> <<>>, record |-> NonDict("none")])
                  /\ idx' = idx + 1
                  /\ UNCHANGED <<clock, valid_events, bpc, raised>>
             ELSE IF r.st = "ok"
             THEN /\ valid_events' = Append(valid_events, r.data)
                  /\ idx' = idx + 1
                  /\ clock' = clock + t1 + t2
                  /\ UNCHANGED <<invalid_events, bpc, raised>>
             ELSE /\ invalid_events' = Append(invalid_events,
                        [record_id |-> RecordId(r.data), missing_keys |-> <<>>,
                         error |-> r.msg, record |-> r.data])
                  /\ idx' = idx + 1
                  /\ UNCHANGED <<clock, valid_events, bpc, raised>>
    /\ UNCHANGED <<recordVars, all_events, canonical_event, driver, outputs, apiVars, dbVars>>

\* lines 109-123 of extract_data: the two output files
ExtractPersist ==
    /\ driver = "extract" /\ bpc = "loop" /\ idx = Len(all_events)
    /\ IF valid_events # <<>>
       THEN /\ outputs' = {"valid_file"} \cup
                          (IF invalid_events # <<>> THEN {"dead_letter_file"} ELSE {})
            /\ bpc' = "done" /\ raised' = ""
       ELSE /\ outputs' = {} /\ bpc' = "failed" /\ raised' = "ValueError"
    /\ UNCHANGED <<recordVars, clock, all_events, idx, valid_events, invalid_events,
                   canonical_event, driver, apiVars, dbVars>>

NextBatch ==
    \/ TransformConnect \/ TransformRecord \/ TransformPersist
    \/ ExtractRecord \/ ExtractPersist

SpecBatch == InitBatch /\ [][NextBatch]_vars

----------------------------------------------------------------------------
(* vocabulary of the properties of one validation call *)

Done     == vpc = "done"
Accepted == outcome.st = "ok"
RejectedWith(m) == outcome.st = "error" /\ outcome.msg = m

\* the clock when validate_raw_event was called
CallClock == IF now # NotSampled THEN now ELSE clock

ValidIpTexts == {<<"45.19.34.10">>, <<"10.0.0.5">>}

NonBlank(v)        == Strip(PyStr(v).s) # <<>>
NonBlankStr(v, mx) == v.t = "str" /\ Strip(v.s) # <<>> /\ StrLen(Strip(v.s)) <= mx
ValidIp(v)         == v.t = "str" /\ Strip(v.s) \in ValidIpTexts
ValidWord(v, ws)   == v.t = "str" /\ Len(Strip(v.s)) = 1 /\ LowerSym(Strip(v.s)[1]) \in ws

OptionalFine(d) == \A k \in Range(optional_string_fields) : ~Has(d, k) \/ d.f[k].t = "str"
PayloadFine(d)  == d.f["raw_payload"] \in {Absent, None, Obj, Str(<<"{json}">>)}

\* every rule but the temporal ones is met
ValidExceptTime(d) ==
    /\ d.kind = "dict"
    /\ NonBlankStr(d.f["event_id"], MaxEventIdLen)
    /\ ValidIp(d.f["source_ip"]) /\ ValidIp(d.f["destination_ip"])
    /\ ValidWord(d.f["event_type"], allowed_event_types)
    /\ ValidWord(d.f["severity"], allowed_severity)
    /\ NonBlankStr(d.f["message"], MaxMessageLen)
    /\ OptionalFine(d) /\ PayloadFine(d)

\* a date-time written without offset, with "Z" or with "+00:00"
UtcSpelled(v) ==
    /\ v.t = "str"
    /\ Strip(v.s) \in {<<"YYYY-MM-DDTHH:MM:SS">>, <<"YYYY-MM-DDTHH:MM:SS", "Z">>,
                       <<"YYYY-MM-DDTHH:MM:SS", "+00:00">>}

FutureMsg == <<"timestamp cannot be from the future">>
StaleMsg  == <<"timestamp is older than 90 days">>

TemporalMsg(m) ==
    m # <<>> /\ Head(m) \in {"Invalid event_time format", Head(FutureMsg), Head(StaleMsg)}

\* C3: with now fixed, an otherwise valid record whose event time is exactly 90 days
\* before now is accepted, and one whose event time is more than 90 days before now
\* (90 days + 1 second) is rejected with the stale-timestamp error.
C3_RetentionBoundary ==
    (Done /\ ValidExceptTime(orig) /\ UtcSpelled(orig.f["event_time"])) =>
        LET w == orig.f["event_time"].n IN
        /\ (CallClock - w = Retention => Accepted)
        /\ (CallClock - w > Retention => RejectedWith(StaleMsg))

\* C4: with now fixed, an otherwise valid record whose event time equals now is
\* accepted, and one whose event time is any positive amount after now is rejected
\* with the future-timestamp error.
C4_FutureBoundary ==
    (Done /\ ValidExceptTime(orig) /\ UtcSpelled(orig.f["event_time"])) =>
        LET w == orig.f["event_time"].n IN
        /\ (w = CallClock => Accepted)
        /\ (w > CallClock => RejectedWith(FutureMsg))

C4_Witness ==
    /\ Done /\ ValidExceptTime(orig) /\ UtcSpelled(orig.f["event_time"])
    /\ orig.f["event_time"].n = CallClock /\ Accepted

AbsentRequired(d) == SelectSeq(required_fields, LAMBDA k : d.f[k] = Absent)

\* C6: a non-empty mapping that lacks required fields is rejected with the
\* missing-field error, whose message names every missing required field in the
\* order of required_fields, whatever else is wrong with the record.
C6_MissingFieldsAllNamed ==
    (Done /\ orig.kind = "dict" /\ ~IsEmptyDict(orig) /\ AbsentRequired(orig) # <<>>) =>
        /\ outcome.st = "error" /\ outcome.etype = "ValueError"
        /\ outcome.msg = <<"Missing required fields">> \o AbsentRequired(orig)

C6_Witness ==
    /\ Done /\ orig.kind = "dict" /\ Len(AbsentRequired(orig)) = 2
    /\ outcome.msg = <<"Missing required fields">> \o AbsentRequired(orig)

\* an event time of the last 90 days, not in the future
InWindow(v) == UtcSpelled(v) /\ v.n <= Now0 /\ Now0 - v.n <= Retention

\* the upstream record of the round trip: the seven fields typed, non-blank and
\* within the length bounds, addresses IPv4, type and severity allowed in any case
ValidApiRecord(r) ==
    /\ r.kind = "dict"
    /\ NonBlankStr(r.f["event_id"], MaxEventIdLen)
    /\ InWindow(r.f["timestamp"])
    /\ ValidIp(r.f["source_ip"]) /\ ValidIp(r.f["destination_ip"])
    /\ ValidWord(r.f["event_type"], allowed_event_types)
    /\ ValidWord(r.f["severity"], allowed_severity)
    /\ r.f["description"].t = "str"
    /\ r.f["description"].s = <<>> \/ NonBlankStr(r.f["description"], MaxMessageLen)

EarlyOK(d) ==
    /\ d.kind = "dict"
    /\ \A k \in Range(required_fields) : Has(d, k) /\ NonBlank(d.f[k])
    /\ \A k \in {"event_id", "source_ip", "destination_ip", "event_type", "message"} :
           d.f[k].t = "str"
    /\ d.f["event_time"].t \in {"str", "datetime"}
    /\ d.f["severity"].t \in {"str", "int"}
    /\ OptionalFine(d) /\ PayloadFine(d)

BadIp(v)       == v.t = "str" /\ Strip(v.s) # <<>> /\ Strip(v.s) \notin ValidIpTexts
BadWord(v, ws) == NonBlank(v) /\ ~ValidWord(v, ws)
TooLong(v, mx) == v.t = "str" /\ StrLen(Strip(v.s)) > mx

\* an address, domain or length rule is broken
LateViolation(d) ==
    \/ BadIp(d.f["source_ip"]) \/ BadIp(d.f["destination_ip"])
    \/ BadWord(d.f["event_type"], allowed_event_types)
    \/ BadWord(d.f["severity"], allowed_severity)
    \/ TooLong(d.f["event_id"], MaxEventIdLen) \/ TooLong(d.f["message"], MaxMessageLen)

\* the event time is text the validator cannot parse, lies after the call, or is
\* more than 90 whole days old
TemporalViolation(d) ==
    LET v == d.f["event_time"] IN
    /\ d.kind = "dict" /\ v.t = "str" /\ Strip(v.s) # <<>>
    /\ \/ Strip(v.s) \in {<<"BAD_TIMESTAMP">>, <<"YYYY-MM-DDTHH:MM:SS", "-05:00">>}
       \/ UtcSpelled(v) /\ v.n > CallClock
       \/ UtcSpelled(v) /\ CallClock - v.n >= (RetentionDays + 1) * SecondsPerDay

\* C8 as stated: a record that breaks a structural rule (required fields, types,
\* payload, emptiness, IPv4, domain, length) and a temporal rule is rejected with
\* the structural error, never the temporal one.
C8_StructuralBeforeTemporal ==
    (Done /\ TemporalViolation(orig) /\ (~EarlyOK(orig) \/ LateViolation(orig))) =>
        outcome.st = "error" /\ ~TemporalMsg(outcome.msg)

\* C8 amended: the required-field, optional-field, type, payload and emptiness
\* checks run before the temporal checks, which run before the IPv4, domain and
\* length checks: a record that breaks a temporal rule is rejected with the temporal
\* error when it meets steps 1-7 (also when an address, domain or length rule is
\* broken too), and with the error of steps 1-7 otherwise.
C8_Amended ==
    (Done /\ TemporalViolation(orig)) =>
        /\ outcome.st = "error"
        /\ EarlyOK(orig) => TemporalMsg(outcome.msg)
        /\ ~EarlyOK(orig) => ~TemporalMsg(outcome.msg)

C8_Witness ==
    /\ Done /\ TemporalViolation(orig) /\ EarlyOK(orig) /\ LateViolation(orig)
    /\ outcome.msg = StaleMsg

\* the value an optional field is to end with: the absent marker, or the trimmed,
\* lower-cased text of the value
CoercedOptional(v) ==
    IF v.t \in {"absent", "none"} THEN None ELSE Str(Lower(Strip(PyStr(v).s)))

\* C9: an optional metadata field that is absent, null or a string-coercible value
\* never causes rejection; it ends as the absent marker or the coerced string.
C9_OptionalNeverRejects ==
    (/\ Done /\ ValidExceptTime([orig EXCEPT !.f["host"] = Absent, !.f["vendor"] = Absent])
     /\ InWindow(orig.f["event_time"])
     /\ \A k \in Range(optional_string_fields) :
            orig.f[k].t \in {"absent", "none", "str", "int"}) =>
        /\ Accepted
        /\ \A k \in Range(optional_string_fields) : data.f[k] = CoercedOptional(orig.f[k])

\* C10: when validate_raw_event rejects a record, the caller's mapping is exactly
\* as it was passed in.
C10_NoMutationOnFailure ==
    (Done /\ outcome.st = "error") => data = orig

\* four numbers between dots, each in 0..255
DottedQuad(v) ==
    /\ v.t = "str" /\ Len(v.s) = 1 /\ Len(IpOctets(v.s[1])) = 4
    /\ \A i \in 1..4 : 0 <= IpOctets(v.s[1])[i] /\ IpOctets(v.s[1])[i] <= 255

TrimmedStr(v) == v.t = "str" /\ Strip(v.s) = v.s

\* C11: whenever validate_raw_event returns, the seven required fields are
\* non-empty trimmed strings, both addresses are dotted-quad IPv4 with octets in
\* 0..255, event_type and severity are allowed values, the lengths are within their
\* bounds, and each optional key is present with a trimmed lower-cased string or None.
C11_AcceptedInvariant ==
    (Done /\ Accepted) =>
        /\ \A k \in Range(required_fields) : TrimmedStr(data.f[k]) /\ data.f[k].s # <<>>
        /\ DottedQuad(data.f["source_ip"]) /\ DottedQuad(data.f["destination_ip"])
        /\ Len(data.f["event_type"].s) = 1
        /\ data.f["event_type"].s[1] \in allowed_event_types
        /\ Len(data.f["severity"].s) = 1
        /\ data.f["severity"].s[1] \in {"low", "medium", "high", "critical"}
        /\ 1 <= StrLen(data.f["event_id"].s) /\ StrLen(data.f["event_id"].s) <= 128
        /\ 1 <= StrLen(data.f["message"].s) /\ StrLen(data.f["message"].s) <= 2000
        /\ 7 <= StrLen(data.f["source_ip"].s) /\ StrLen(data.f["source_ip"].s) <= 15
        /\ 7 <= StrLen(data.f["destination_ip"].s)
        /\ StrLen(data.f["destination_ip"].s) <= 15
        /\ \A k \in Range(optional_string_fields) :
               \/ data.f[k] = None
               \/ TrimmedStr(data.f[k]) /\ Lower(data.f[k].s) = data.f[k].s

C11_Witness ==
    /\ Done /\ Accepted
    /\ orig.f["host"] = Str(<<" ", "Web-01">>) /\ data.f["host"] = Str(<<"web-01">>)
    /\ orig.f["vendor"] = Absent /\ data.f["vendor"] = None
    /\ orig.f["source_ip"] = Str(<<" ", "10.0.0.5">>)
    /\ data.f["source_ip"] = Str(<<"10.0.0.5">>)

\* C12: every record validate_raw_event returns passes validate_transformation: the
\* six canonical and four transform fields are present and not None, severity_level
\* equals severity, category equals event_type, normalized_message is not blank and
\* processed_at is a UTC-aware instant.
C12_EnrichedPassesPostCheck ==
    (Done /\ Accepted) =>
        /\ validate_transformation(data) = <<>>
        /\ \A k \in Range(REQUIRED_CANONICAL_FIELDS) \cup Range(REQUIRED_TRANSFORM_FIELDS) :
               Has(data, k) /\ data.f[k] # None
        /\ data.f["severity_level"] = data.f["severity"]
        /\ data.f["category"] = data.f["event_type"]
        /\ data.f["normalized_message"].t = "str"
        /\ Strip(data.f["normalized_message"].s) # <<>>
        /\ data.f["processed_at"].t = "datetime"
        /\ data.f["processed_at"].s = <<"+00:00">>

C12_Witness ==
    /\ Done /\ Accepted /\ validate_transformation(data) = <<>>
    /\ orig.f["message"] = Str(<<"m2000">>)
    /\ data.f["normalized_message"] = Str(<<"m2000">>)
    /\ data.f["processed_at"] = DateTimeV(Now0 + 1)

\* every rule is met, whatever the text under key k is
OtherwiseValid(d, k) ==
    /\ d.kind = "dict" /\ d.f[k].t = "str"
    /\ ValidExceptTime(Put(d, k, Str(<<"test">>)))
    /\ InWindow(d.f["event_time"])

TrimmedLen(v) == StrLen(Strip(v.s))

\* C14: an otherwise valid record whose event_id has, after trimming, exactly 128
\* characters is accepted, and one with 129 characters is rejected with the event_id
\* length error; a message of 2000 characters is accepted, one of 2001 is rejected
\* with the message length error.
C14_LengthBoundary ==
    /\ (Done /\ OtherwiseValid(orig, "event_id")) =>
          /\ TrimmedLen(orig.f["event_id"]) = 128 => Accepted
          /\ TrimmedLen(orig.f["event_id"]) = 129 =>
                RejectedWith(<<"event_id length must be between 1 and 128 characters">>)
    /\ (Done /\ OtherwiseValid(orig, "message")) =>
          /\ TrimmedLen(orig.f["message"]) = 2000 => Accepted
          /\ TrimmedLen(orig.f["message"]) = 2001 =>
                RejectedWith(<<"message length must be between 1 and 2000 characters">>)

C14_Witness ==
    /\ Done /\ Accepted
    /\ StrLen(orig.f["event_id"].s) = 129 /\ StrLen(data.f["event_id"].s) = 128
    /\ StrLen(data.f["message"].s) = 2000

C14_WitnessRejected ==
    /\ Done /\ OtherwiseValid(orig, "event_id") /\ TrimmedLen(orig.f["event_id"]) = 129
    /\ outcome.st = "error"

Again == vpc = "again"

\* the fields of a canonical record
CanonicalFields == Range(required_fields) \cup Range(optional_string_fields)

\* C15: validate_raw_event applied, with the same now, to a record it has accepted
\* accepts it again and leaves every canonical field as the first call left it.
C15_Idempotent ==
    (Again /\ CallClock = first.now) =>
        /\ Accepted
        /\ \A k \in CanonicalFields : data.f[k] = first.data.f[k]

\* the same statement for records that carry all six optional fields as text
C15_WithAllOptional ==
    (/\ Again /\ CallClock = first.now
     /\ \A k \in Range(optional_string_fields) : orig.f[k].t = "str") => C15_Idempotent

C15_WitnessAccepted ==
    /\ Again /\ CallClock = first.now /\ Accepted
    /\ orig.f["severity"] = Str(<<" ", "High", " ">>)
    /\ data.f["severity"] = Str(<<"high">>)

\* how a call ended, as far as the event time is concerned
Classification(st, msg) ==
    IF st = "ok" THEN "accepted"
    ELSE IF msg = FutureMsg THEN "future"
    ELSE IF msg = StaleMsg THEN "stale"
    ELSE IF Head(msg) = "Invalid event_time format" THEN "unparsed"
    ELSE "other"

\* the spellings of the date-time T: T, T followed by Z, T followed by +00:00
Spellings(dt) == {<<dt>>, <<dt, "Z">>, <<dt, "+00:00">>}

\* the outcome of the call on record d with its event time spelled sp
OutcomeSpelled(d, sp, tnow) ==
    LET r == validate_raw_event(Put(d, "event_time", TimeStr(sp, d.f["event_time"].n)),
                                tnow, tnow, tnow)
    IN  Classification(r.st, r.msg)

\* C16: for a date-time T with a separator and no offset, the inputs T, T + "Z" and
\* T + "+00:00" are handed to the parser as the same text, so they are parsed to the
\* same instant, and the record gets the same classification (accepted, future or
\* stale) under the same now.
C16_SpellingsAgree ==
    \A dt \in DateTimeBlocks :
        (/\ Done /\ orig.kind = "dict" /\ orig.f["event_time"].t = "str"
         /\ Strip(orig.f["event_time"].s) \in Spellings(dt)) =>
            /\ \A sp \in Spellings(dt) :
                   /\ OutcomeSpelled(orig, sp, CallClock)
                        = Classification(outcome.st, outcome.msg)
                   /\ NormalizeTimestampText(sp) \in {<<dt, "+00:00">>, <<dt>>}
                   /\ IsoParses(NormalizeTimestampText(sp))
            /\ Classification(outcome.st, outcome.msg) # "unparsed"

C16_Witness ==
    /\ Done /\ orig.f["event_time"] = TimeNaive(Now0 - Retention - SecondsPerDay)
    /\ RejectedWith(StaleMsg)
    /\ OutcomeSpelled(orig, <<"YYYY-MM-DDTHH:MM:SS", "Z">>, CallClock) = "stale"

\* C17: the future check and the staleness check of a call compare the event time
\* with one instant, the single reading now, however far the clock has advanced by
\* the time the call returns.
C17_SingleNow ==
    (Done /\ now # NotSampled) =>
        LET ts == data.f["event_time"].n IN
        /\ now = Now0 /\ clock >= now
        /\ RejectedWith(FutureMsg) <=> ts > now
        /\ RejectedWith(StaleMsg) <=>
              (ts <= now /\ (now - ts) \div SecondsPerDay > RetentionDays)
        /\ Accepted => (ts <= now /\ (now - ts) \div SecondsPerDay <= RetentionDays)

C17_Witness ==
    /\ Done /\ Accepted /\ now = Now0 /\ clock = now + 2 * MaxTick
    /\ data.f["event_time"].n = Now0 - Retention - SecondsPerDay + 1

PostDone == vpc = "post_done"

PresentNotNone(d, k) == d.f[k].t \notin {"absent", "none"}

AbsentOrNone(d, fields) == SelectSeq(fields, LAMBDA k : ~PresentNotNone(d, k))

\* a datetime, or text that parses to one, whose offset is UTC
UtcAware(v) ==
    \/ v.t = "datetime" /\ v.s = <<"+00:00">>
    \/ v.t = "str" /\ v.s = <<"YYYY-MM-DDTHH:MM:SS", "+00:00">>

\* the conditions under which the post-transform check is to pass
PostConditions(d) ==
    /\ \A k \in PostKeys : PresentNotNone(d, k)
    /\ d.f["severity_level"] = d.f["severity"]
    /\ d.f["category"] = d.f["event_type"]
    /\ NonBlank(d.f["normalized_message"])
    /\ UtcAware(d.f["processed_at"])

ConsistencyMessages ==
    {<<"severity_level does not match severity">>,
     <<"category does not match event_type">>,
     <<"normalized_message is empty">>,
     <<"processed_at is not a valid ISO datetime">>,
     <<"processed_at must be a datetime">>,
     <<"processed_at must be timezone-aware and UTC">>}

\* C13: validate_transformation returns without error exactly when the six canonical
\* and four transform fields are present and not None, severity_level = severity,
\* category = event_type, normalized_message is not blank and processed_at is (or
\* parses to) a UTC-aware instant; otherwise it raises one validation error naming
\* the violation, missing canonical fields first, then missing transform fields,
\* then the consistency violations.
C13_PostCheckIff ==
    PostDone =>
        /\ outcome.st = "ok" <=> PostConditions(data)
        /\ ~PostConditions(data) =>
              /\ outcome.st = "error" /\ outcome.etype = "ValueError"
              /\ IF AbsentOrNone(data, REQUIRED_CANONICAL_FIELDS) # <<>>
                 THEN outcome.msg = <<"Canonical field(s) missing after transform">>
                                    \o AbsentOrNone(data, REQUIRED_CANONICAL_FIELDS)
                 ELSE IF AbsentOrNone(data, REQUIRED_TRANSFORM_FIELDS) # <<>>
                 THEN outcome.msg =
                        <<"Missing transformed field(s) during post-transform validation">>
                        \o AbsentOrNone(data, REQUIRED_TRANSFORM_FIELDS)
                 ELSE outcome.msg \in ConsistencyMessages

\* the same statement for records whose normalized_message is a str when present
C13_ForTextMessage ==
    (PostDone /\ data.f["normalized_message"].t \in {"str", "none", "absent"}) =>
        C13_PostCheckIff

----------------------------------------------------------------------------
(* properties of the batch drivers *)

LoopFinished == bpc # "aborted" /\ idx = Len(all_events)

\* C1: every record the per-record loop has consumed is in exactly one of the two
\* result lists, so when the loop finishes len(valid) + len(invalid) = N.
C1_Completeness ==
    /\ Len(valid_events) + Len(invalid_events) = idx
    /\ LoopFinished => Len(valid_events) + Len(invalid_events) = Len(all_events)

C1_Witness ==
    /\ bpc = "done" /\ idx = Len(all_events) /\ Len(all_events) >= 2
    /\ valid_events # <<>> /\ invalid_events # <<>>

\* C2: in run_transform_for_batch no error of a record leaves the per-record
\* handler: the loop is never aborted by a record, whatever the record is.
C2_PerRecordIsolation == driver = "transform" => bpc # "aborted"

\* the rejection entries of the records consumed so far that equal rec
Rejections(rec) ==
    {j \in DOMAIN invalid_events :
        /\ invalid_events[j].source_ip = Get(rec, "source_ip")
        /\ invalid_events[j].destination_ip = Get(rec, "destination_ip")
        /\ invalid_events[j].raw_event.f["event_type"] = Get(rec, "event_type")}

Consumed(rec) == \E i \in 1..idx : all_events[i] = rec

ExpectedMessage(rec) ==
    CASE rec = ApiNoSource -> <<"source_ip must be a string">>
      [] rec = ApiBadDest  -> <<"Invalid destination_ip format", "999.999.999.999">>
      [] rec = ApiBadType  -> <<"Invalid event type">>

ExtractEnded == driver = "extract" /\ bpc \in {"done", "failed"}

\* C18: whenever a batch extract_data has processed holds an invalid record, the
\* invalid records are in the dead-letter file when extract_data ends, also when the
\* batch holds no valid record at all.
C18_RejectedAreWritten ==
    (ExtractEnded /\ invalid_events # <<>>) => "dead_letter_file" \in outputs

\* the same statement for the batches that hold a valid record
C18_WhenSomeValid ==
    (ExtractEnded /\ invalid_events # <<>> /\ valid_events # <<>>) =>
        "dead_letter_file" \in outputs

\* run_transform_for_batch has ended: it returned or left with an exception
TransformEnded == driver = "transform" /\ bpc \in {"done", "failed", "aborted"}

\* the positions in calls of the calls of one kind
Positions(op) == {i \in DOMAIN calls : calls[i].op = op}

Opened == Positions("connect") # {}

\* a call equal to c was made before position p
Before(c, p) == \E i \in 1..(p - 1) : calls[i] = c

\* at most one commit; it comes after the upload of each non-empty list and after
\* an insert for every valid event and every error record, at the end of the loop
CommitOnceAfterAll ==
    /\ Cardinality(Positions("commit")) <= 1
    /\ \A c \in Positions("commit") :
         /\ idx = Len(all_events) /\ bpc = "done" /\ raised = ""
         /\ valid_events # <<>> =>
                Before(Call("upload", "staging", Len(valid_events)), c)
         /\ invalid_events # <<>> =>
                Before(Call("upload", "dead_letter", Len(invalid_events)), c)
         /\ \A i \in DOMAIN Inserts : Before(Inserts[i], c)
         /\ Positions("rollback") = {}
         /\ db = {Row(Inserts[i]) : i \in DOMAIN Inserts}

\* a run that opened the connection ends committed, or rolled back with the
\* exception leaving the function and no row in the database
FailureRollsBack ==
    (TransformEnded /\ Opened) =>
        IF raised = ""
        THEN bpc = "done" /\ Positions("commit") # {}
        ELSE /\ Positions("rollback") # {} /\ Positions("commit") = {} /\ db = {}
             /\ bpc \in {"failed", "aborted"}

\* the cursor, when one was created, and the connection are closed last
ClosedOnExit ==
    (TransformEnded /\ Opened) =>
        /\ calls[Len(calls)] = CloseConn
        /\ Cardinality({i \in DOMAIN calls : calls[i] = CloseConn}) = 1
        /\ Positions("cursor") # {} =>
               /\ calls[Len(calls) - 1] = CloseCursor
               /\ Cardinality({i \in DOMAIN calls : calls[i] = CloseCursor}) = 1

\* C24: run_transform_for_batch commits at most once per batch, only after both
\* uploads and every insert of valid and error records; a failure after the
\* connection was opened rolls the transaction back, commits nothing and leaves with
\* the exception; on every exit after the connection was opened the cursor and the
\* connection are closed.
C24_CommitOnceOrRollback ==
    driver = "transform" => (CommitOnceAfterAll /\ FailureRollsBack /\ ClosedOnExit)

\* the commit fails after two inserts
C24_Witness ==
    /\ TransformEnded /\ raised = "Exception" /\ Len(valid_events) = 1
    /\ Len(invalid_events) = 1 /\ Cardinality(Positions("execute")) = 2
    /\ Positions("rollback") # {} /\ calls[Len(calls)] = CloseConn

C24_WitnessCommitted ==
    /\ TransformEnded /\ raised = "" /\ Positions("commit") # {}
    /\ Cardinality(db) = MaxBatch /\ valid_events # <<>> /\ invalid_events # <<>>

C24_WitnessAborted ==
    /\ TransformEnded /\ bpc = "aborted" /\ valid_events # <<>>
    /\ calls[Len(calls)] = CloseConn

\* every upload is made before the first insert, and when an insert is made the
\* upload of each non-empty list was made
UploadsBeforeInserts ==
    /\ \A u \in Positions("upload"), e \in Positions("execute") : u < e
    /\ \A e \in Positions("execute") :
         /\ valid_events # <<>> =>
                Before(Call("upload", "staging", Len(valid_events)), e)
         /\ invalid_events # <<>> =>
                Before(Call("upload", "dead_letter", Len(invalid_events)), e)

\* a rollback leaves the uploaded objects where they are
RollbackKeepsObjects ==
    /\ (\E i \in DOMAIN calls : calls[i].op = "upload" /\ calls[i].on = "staging")
           <=> "s3_staging" \in outputs
    /\ (\E i \in DOMAIN calls : calls[i].op = "upload" /\ calls[i].on = "dead_letter")
           <=> "s3_dead_letter" \in outputs

\* C25: in run_transform_for_batch both uploads happen before any database insert,
\* and a database failure after them rolls back the database only: the objects stay
\* in S3 while the database holds none of the rows of the batch.
C25_UploadsBeforeInserts ==
    driver = "transform" => (UploadsBeforeInserts /\ RollbackKeepsObjects)

\* the reachable state of the claim: both objects in S3, an insert made, the
\* transaction rolled back, no row of the batch in the database
C25_Witness ==
    /\ TransformEnded /\ raised = "Exception"
    /\ {"s3_staging", "s3_dead_letter", "db_rollback"} \subseteq outputs
    /\ Positions("execute") # {} /\ Positions("rollback") # {}
    /\ db = {}

----------------------------------------------------------------------------
(* the mock ingestion API, mock_api.py and mock_event_generator.py *)

\* largest size a client asks for, and the number of events the store may hold
MaxSize == 2
MaxStore == 3
\* number of event identifiers generated in one run of the server
MaxIssued == 4
\* largest page and limit a client asks for
MaxPage == 3
MaxLimit == 2

\* the configured key, and the X-API-Key headers a request carries ("none": no header)
API_KEY == "key"
RequestKeys == {API_KEY, "wrong", "none"}

\* the k-th identifier generate_unique_event_id() returns
generate_unique_event_id(k) == Str(<<UniqueIds[k]>>)

\* generate_valid_event(), as the k-th event generated: stamped with the current time
generate_valid_event(k) ==
    Put(Put(BaseApi, "event_id", generate_unique_event_id(k)), "timestamp", TimeZ(Now0))

GeneratedValid == {generate_valid_event(k) : k \in DOMAIN UniqueIds}

\* the corruptions of generate_invalid_event(): one of each kind
Corruptions ==
    {<<"missing_field", "source_ip">>}
    \cup {<<c, "">> : c \in {"bad_source_ip", "bad_destination_ip", "bad_timestamp",
                              "bad_type"}}

Corrupt(event, c) ==
    CASE c[1] = "missing_field"      -> Put(event, c[2], Absent)
      [] c[1] = "bad_source_ip"      -> Put(event, "source_ip", Str(<<"999.999.999.999">>))
      [] c[1] = "bad_destination_ip" ->
             Put(event, "destination_ip", Str(<<"999.999.999.999">>))
      [] c[1] = "bad_timestamp"      -> Put(event, "timestamp", Str(<<"BAD_TIMESTAMP">>))
      [] c[1] = "bad_type"           -> Put(event, "event_type", Str(<<"UNKNOWN_TYPE">>))

\* generate_invalid_event()
GeneratedInvalid == {Corrupt(e, c) : e \in GeneratedValid, c \in Corruptions}

\* the fault rates a client sends, as <<numerator, denominator>>
Rates == {<<0 - 1, 4>>, <<0, 1>>, <<1, 4>>, <<1, 2>>, <<3, 4>>, <<1, 1>>, <<5, 4>>}

\* 0.0 <= fault_rate <= 1.0
RateInRange(q) == 0 <= q[1] /\ q[1] <= q[2]

\* variant: the product is rounded up
InvalidCount_RoundedUp(size, q) == (size * q[1] + q[2] - 1) \div q[2]

\* int(size * fault_rate): the product, truncated
InvalidCount(size, q) == (size * q[1]) \div q[2]

\* the answer to a request that carried the header key
Answer(kind, status, key) ==
    [NoResponse EXCEPT !.kind = kind, !.status = status, !.x_api_key = key]

\* HTTPException(status_code=status)
ErrorResponse(kind, status) == Answer(kind, status, API_KEY)

\* the endpoints declared with dependencies=[Depends(verify_api_key)]
EventsEndpoints == {"event", "paginated", "batch", "stats", "clear", "by_id"}

\* variant: the key is checked after the handler of DELETE /events/clear has run
Unauthorized_AfterHandler ==
    /\ \E kind \in EventsEndpoints, key \in RequestKeys \ {API_KEY} :
         /\ response' = Answer(kind, 401, key)
         /\ event_store' = IF kind = "clear" THEN <<>> ELSE event_store
    /\ UNCHANGED <<issued, recordVars, clock, batchVars, dbVars>>

\* verify_api_key rejects the request: the handler does not run
Unauthorized ==
    /\ \E kind \in EventsEndpoints, key \in RequestKeys \ {API_KEY} :
         response' = Answer(kind, 401, key)
    /\ UNCHANGED <<event_store, issued, recordVars, clock, batchVars, dbVars>>

\* GET /
home ==
    /\ \E key \in RequestKeys : response' = Answer("home", 200, key)
    /\ UNCHANGED <<event_store, issued, recordVars, clock, batchVars, dbVars>>

\* GET /health
health ==
    /\ \E key \in RequestKeys : response' = Answer("health", 200, key)
    /\ UNCHANGED <<event_store, issued, recordVars, clock, batchVars, dbVars>>

\* GET /events
get_events ==
    /\ Len(event_store) < MaxStore /\ issued < MaxIssued
    /\ LET event == generate_valid_event(issued + 1)
       IN  /\ event_store' = Append(event_store, event)
           /\ response' = [Answer("event", 200, API_KEY) EXCEPT !.events = <<event>>]
    /\ issued' = issued + 1
    /\ UNCHANGED <<recordVars, clock, batchVars, dbVars>>

\* seq[start:end] for 0 <= start <= end
PySlice(seq, start, end) ==
    LET lo == IF start < Len(seq) THEN start ELSE Len(seq)
        hi == IF end < Len(seq) THEN end ELSE Len(seq)
    IN  [i \in 1..(hi - lo) |-> seq[lo + i]]

\* variant: the first page starts after the first limit events
PageStart_FromPage(page, limit) == page * limit

\* start = (page - 1) * limit
PageStart(page, limit) == (page - 1) * limit

\* event_store[start:end] of get_paginated_events
PageOf(store, page, limit) ==
    LET start == PageStart(page, limit)
        end   == start + limit
    IN  PySlice(store, start, end)

\* GET /events/paginated?page=..&limit=..
get_paginated_events ==
    /\ \E page \in 0..MaxPage, limit \in 0..MaxLimit :
         response' =
            IF page < 1 \/ limit < 1
            THEN [ErrorResponse("paginated", 400) EXCEPT !.page = page, !.limit = limit]
            ELSE [Answer("paginated", 200, API_KEY) EXCEPT
                     !.page = page, !.limit = limit, !.total = Len(event_store),
                     !.events = PageOf(event_store, page, limit)]
    /\ UNCHANGED <<event_store, issued, recordVars, clock, batchVars, dbVars>>

\* random.shuffle(events): the events in the order perm
Shuffled(events, perm) == [i \in DOMAIN events |-> events[perm[i]]]

\* the events of one batch: the valid ones are generated first, then the corrupted
BatchValid(valid_count) == [i \in 1..valid_count |-> generate_valid_event(issued + i)]

BatchInvalid(valid_count, cs) ==
    [i \in DOMAIN cs |-> Corrupt(generate_valid_event(issued + valid_count + i), cs[i])]

\* variant of get_events_batch: every generated event is stored
get_events_batch_StoreAll ==
    \E size \in 0..MaxSize, q \in Rates :
        IF size < 1 \/ ~RateInRange(q)
        THEN /\ response' = [ErrorResponse("batch", 400) EXCEPT
                                !.size = size, !.fault_rate = q]
             /\ UNCHANGED <<event_store, issued, recordVars, clock, batchVars, dbVars>>
        ELSE LET invalid_count == InvalidCount(size, q)
                 valid_count == size - invalid_count
             IN  /\ Len(event_store) + size <= MaxStore + MaxSize
                 /\ issued + size <= MaxIssued
                 /\ \E cs \in [1..invalid_count -> Corruptions],
                       perm \in Permutations(1..size) :
                       LET valid   == BatchValid(valid_count)
                           invalid == BatchInvalid(valid_count, cs)
                       IN  /\ event_store' = event_store \o valid \o invalid
                           /\ response' =
                                [Answer("batch", 200, API_KEY) EXCEPT
                                    !.size = size, !.fault_rate = q,
                                    !.valid_events = valid_count,
                                    !.invalid_events = invalid_count,
                                    !.events = Shuffled(valid \o invalid, perm)]
                 /\ issued' = issued + size
                 /\ UNCHANGED <<recordVars, clock, batchVars, dbVars>>

\* GET /events/batch?size=..&fault_rate=..
get_events_batch ==
    \E size \in 0..MaxSize, q \in Rates :
        IF size < 1 \/ ~RateInRange(q)
        THEN /\ response' = [ErrorResponse("batch", 400) EXCEPT
                                !.size = size, !.fault_rate = q]
             /\ UNCHANGED <<event_store, issued, recordVars, clock, batchVars, dbVars>>
        ELSE LET invalid_count == InvalidCount(size, q)
                 valid_count == size - invalid_count
             IN  /\ Len(event_store) + valid_count <= MaxStore
                 /\ issued + size <= MaxIssued
                 /\ \E cs \in [1..invalid_count -> Corruptions],
                       perm \in Permutations(1..size) :
                       LET valid   == BatchValid(valid_count)
                           invalid == BatchInvalid(valid_count, cs)
                       IN  /\ event_store' = event_store \o valid
                           /\ response' =
                                [Answer("batch", 200, API_KEY) EXCEPT
                                    !.size = size, !.fault_rate = q,
                                    !.valid_events = valid_count,
                                    !.invalid_events = invalid_count,
                                    !.events = Shuffled(valid \o invalid, perm)]
                 /\ issued' = issued + size
                 /\ UNCHANGED <<recordVars, clock, batchVars, dbVars>>

\* GET /events/stats
get_event_stats ==
    /\ response' = [Answer("stats", 200, API_KEY) EXCEPT
                       !.total = Len(event_store),
                       !.unique = Cardinality({Get(event_store[i], "event_id") :
                                                  i \in DOMAIN event_store})]
    /\ UNCHANGED <<event_store, issued, recordVars, clock, batchVars, dbVars>>

\* DELETE /events/clear
clear_event_store ==
    /\ event_store' = <<>>
    /\ response' = [Answer("clear", 200, API_KEY) EXCEPT !.size = Len(event_store)]
    /\ UNCHANGED <<issued, recordVars, clock, batchVars, dbVars>>

\* GET /events/{event_id}: the first stored event with that identifier
get_event_by_id ==
    /\ \E k \in 1..MaxIssued :
         LET event_id == generate_unique_event_id(k)
             found == {i \in DOMAIN event_store :
                          Get(event_store[i], "event_id") = event_id}
         IN  response' =
                IF found = {}
                THEN [ErrorResponse("by_id", 404) EXCEPT !.event_id = k]
                ELSE [Answer("by_id", 200, API_KEY) EXCEPT
                         !.event_id = k,
                         !.events = <<event_store[CHOOSE i \in found :
                                                     \A j \in found : i <= j]>>]
    /\ UNCHANGED <<event_store, issued, recordVars, clock, batchVars, dbVars>>

InitApi == RecordIdle /\ clock = Now0 /\ BatchIdle /\ ApiIdle /\ DbIdle

NextApi ==
    \/ Unauthorized \/ home \/ health \/ get_events \/ get_paginated_events
    \/ get_events_batch \/ get_event_stats \/ clear_event_store \/ get_event_by_id

SpecApi == InitApi /\ [][NextApi]_vars

----------------------------------------------------------------------------
(* properties of the mock API *)

BatchServed == response.kind = "batch" /\ response.status = 200

StoreHoldsValidOnly == \A i \in DOMAIN event_store : event_store[i] \in GeneratedValid

CorruptedNotStored ==
    BatchServed =>
        \A i \in DOMAIN response.events :
            response.events[i] \notin GeneratedValid =>
                \A j \in DOMAIN event_store : event_store[j] # response.events[i]

\* a step that is a call: the response after it is the response of that call
StoreGrowth ==
    /\ (response'.kind = "batch" /\ response'.status = 200) =>
           Len(event_store') = Len(event_store) + response'.valid_events
    /\ (response'.kind = "event" /\ response'.status = 200) =>
           Len(event_store') = Len(event_store) + 1
    /\ response'.status \in {400, 401} => event_store' = event_store

\* C19: after any sequence of API calls every element of event_store was produced by
\* generate_valid_event and no corrupted event of a batch response is stored; a
\* successful /events/batch call grows the store by its valid_events count, a /events
\* call by one.
C19_StoreInvariant ==
    /\ [](StoreHoldsValidOnly /\ CorruptedNotStored)
    /\ [][StoreGrowth]_vars

C19_Witness ==
    /\ BatchServed /\ response.valid_events = 1 /\ response.invalid_events = 1
    /\ Len(event_store) = MaxStore

OpenEndpoints == {"home", "health"}

\* a request without the configured key is answered 401 by every /events endpoint,
\* and 401 is the answer to such requests only; "/" and "/health" answer 200 whatever
\* the header
KeyRule ==
    /\ (response.kind \in EventsEndpoints /\ response.x_api_key # API_KEY) =>
           response.status = 401
    /\ response.status = 401 =>
           (response.kind \in EventsEndpoints /\ response.x_api_key # API_KEY)
    /\ (response.x_api_key # API_KEY /\ response.status = 200) =>
           response.kind \in OpenEndpoints
    /\ response.kind \in OpenEndpoints => response.status = 200

\* the parameters the handlers refuse
BadParameters ==
    \/ response.kind = "batch" /\ (response.size < 1 \/ ~RateInRange(response.fault_rate))
    \/ response.kind = "paginated" /\ (response.page < 1 \/ response.limit < 1)

ParameterRule ==
    (response.x_api_key = API_KEY /\ response.kind \in {"batch", "paginated"}) =>
        (response.status = 400 <=> BadParameters)

RejectedLeavesStore ==
    response'.status \in {400, 401} => (event_store' = event_store /\ issued' = issued)

\* C21: every /events endpoint answers 401 to a request with a missing or wrong key
\* and leaves event_store as it was; only "/" and "/health" answer without the key;
\* a request refused with 400 (size < 1, fault_rate outside [0,1], page < 1,
\* limit < 1) leaves event_store as it was.
C21_RejectedRequests ==
    /\ [](KeyRule /\ ParameterRule)
    /\ [][RejectedLeavesStore]_vars

C21_Witness ==
    /\ response.kind = "clear" /\ response.status = 401 /\ response.x_api_key = "none"
    /\ Len(event_store) = MaxStore

C21_WitnessBadRequest ==
    /\ response.kind = "paginated" /\ response.status = 400 /\ response.limit = 0
    /\ response.page = 1 /\ Len(event_store) = MaxStore

C21_WitnessOpen ==
    response.kind = "health" /\ response.status = 200 /\ response.x_api_key = "none"

PageServed == response.kind = "paginated" /\ response.status = 200

\* the page served holds the stored events at positions (page-1)*limit+1 .. page*limit
PageSlice ==
    PageServed =>
        LET lo == (response.page - 1) * response.limit
            hi == response.page * response.limit
            positions == {i \in DOMAIN event_store : lo < i /\ i <= hi}
        IN  /\ response.page >= 1 /\ response.limit >= 1
            /\ Len(response.events) = Cardinality(positions)
            /\ Len(response.events) <= response.limit
            /\ \A j \in DOMAIN response.events :
                   lo + j \in positions /\ response.events[j] = event_store[lo + j]
            /\ (lo >= Len(event_store) => response.events = <<>>)
            /\ response.total = Len(event_store)

RECURSIVE FirstPages(_, _, _)
\* pages 1..k of store, one after the other
FirstPages(store, limit, k) ==
    IF k = 0 THEN <<>> ELSE FirstPages(store, limit, k - 1) \o PageOf(store, k, limit)

\* the positions of store that page holds
PagePositions(store, page, limit) ==
    Range(PageOf([i \in DOMAIN store |-> i], page, limit))

\* for a fixed limit the pages are pairwise disjoint and make up the store
PagesPartition ==
    \A limit \in 1..MaxLimit :
        LET k == (Len(event_store) + limit - 1) \div limit
        IN  /\ FirstPages(event_store, limit, k) = event_store
            /\ \A p, q \in 1..(k + 1) :
                   p # q => PagePositions(event_store, p, limit)
                               \cap PagePositions(event_store, q, limit) = {}
            /\ PageOf(event_store, k + 1, limit) = <<>>

PageReadsOnly == response'.kind = "paginated" => event_store' = event_store

\* C22: for page >= 1 and limit >= 1, /events/paginated returns the stored events at
\* positions (page-1)*limit .. page*limit - 1 in insertion order (at most limit, none
\* beyond the end) and total = len(event_store); it never modifies the store; for a
\* fixed limit the pages 1..k are pairwise disjoint and concatenate to the store.
C22_Pagination ==
    /\ [](PageSlice /\ PagesPartition)
    /\ [][PageReadsOnly]_vars

C22_Witness ==
    /\ PageServed /\ response.page = 2 /\ response.limit = 2
    /\ Len(event_store) = MaxStore /\ Len(response.events) = MaxStore - 2

C22_WitnessBeyond ==
    /\ PageServed /\ response.page = MaxPage /\ response.limit = 2
    /\ event_store # <<>> /\ response.events = <<>>

----------------------------------------------------------------------------
(* the local load of the raw files, load_to_postgres.py *)

\* number of raw files in the directory
MaxFiles == 2

\* json.load(f) of a raw file: a list of records, or a value that is not a list
ListFile(records) == [kind |-> "list", records |-> records]
OtherFile         == [kind |-> "other", records |-> <<>>]

BadTimestampRecord == Corrupt(generate_valid_event(3), <<"bad_timestamp", "">>)

\* the raw files: clean ones, one with a record that fails in the middle, one that
\* repeats a record, one whose first record fails, an empty list, not a list
LoadFiles ==
    {ListFile(<<generate_valid_event(1), generate_valid_event(2)>>),
     ListFile(<<generate_valid_event(3)>>),
     ListFile(<<generate_valid_event(4), BadTimestampRecord, generate_valid_event(5)>>),
     ListFile(<<generate_valid_event(2), generate_valid_event(2)>>),
     ListFile(<<Corrupt(generate_valid_event(6), <<"missing_field", "source_ip">>)>>),
     ListFile(<<>>),
     OtherFile}

\* lines 139-140: a trailing "Z" becomes "+00:00"
LoadTimestampText(seq) ==
    IF EndsWithZ(seq) THEN SubSeq(seq, 1, Len(seq) - 1) \o <<"+00:00">> ELSE seq

\* lines 135-159: the exception the record raises before it reaches the database
\* ("" if none)
LoadRecordError(record) ==
    IF ~Has(record, "timestamp") THEN "KeyError"
    ELSE IF record.f["timestamp"].t # "str" THEN "AttributeError"
    ELSE IF ~IsoParses(LoadTimestampText(record.f["timestamp"].s)) THEN "ValueError"
    ELSE IF \E k \in {"event_id", "source_ip", "severity", "description"} :
                ~Has(record, k)
    THEN "KeyError"
    ELSE ""

\* the position of the first record that fails (Len(records) + 1 if none), when the
\* database refuses the statement of record dbfail (0: it refuses none)
FirstError(records, dbfail) ==
    LET bad == {j \in DOMAIN records : LoadRecordError(records[j]) # "" \/ j = dbfail}
    IN  IF bad = {} THEN Len(records) + 1
        ELSE CHOOSE j \in bad : \A i \in bad : j <= i

\* variant: the loop goes on after a record failed
RecordsInserted_NoBreak(records, dbfail) ==
    {j \in DOMAIN records : LoadRecordError(records[j]) = "" /\ j # dbfail}

\* lines 131-172: the records whose insert was made; break at the first error
RecordsInserted(records, dbfail) == 1..(FirstError(records, dbfail) - 1)

\* the calls of cursor.execute(INSERT_QUERY, ...) for those records, in order
LoadExecutes(records, done) ==
    LET n == Cardinality(done)
        RECURSIVE Pick(_, _)
        Pick(k, from) ==
            IF k = 0 THEN <<>>
            ELSE LET j == CHOOSE x \in from : \A y \in from : x <= y
                 IN  <<Call("execute", "raw.security_logs", j)>> \o Pick(k - 1, from \ {j})
    IN  Pick(n, done)

\* the row of raw.security_logs a record becomes: event_id is the conflict key
LoadRow(record) == [table |-> "raw.security_logs", id |-> record.f["event_id"].s]

InitLoad ==
    /\ RecordIdle /\ clock = Now0 /\ ApiIdle /\ DbIdle
    /\ all_events \in UNION {[1..n -> LoadFiles] : n \in 0..MaxFiles}
    /\ driver = "load" /\ bpc = "start" /\ idx = 0
    /\ valid_events = <<>> /\ invalid_events = <<>>
    /\ canonical_event = NonDict("unbound") /\ raised = "" /\ outputs = {}

\* lines 85-96: connection, cursor, the list of raw files; the outer handler of lines
\* 221-223 only re-raises, the finally block closes what was opened
LoadStart ==
    /\ driver = "load" /\ bpc = "start"
    /\ \E fail \in {"none", "connect", "cursor"} :
         /\ calls' = CASE fail = "connect" -> <<>>
                       [] fail = "cursor"  -> <<Call("connect", "conn", 0), CloseConn>>
                       [] all_events = <<>> ->
                            <<Call("connect", "conn", 0), Call("cursor", "conn", 0),
                              CloseCursor, CloseConn>>
                       [] OTHER -> <<Call("connect", "conn", 0), Call("cursor", "conn", 0)>>
         /\ bpc' = IF fail = "none" /\ all_events # <<>> THEN "loop" ELSE "failed"
         /\ raised' = CASE fail # "none" -> "Exception"
                        [] all_events = <<>> -> "ValueError"
                        [] OTHER -> ""
    /\ UNCHANGED <<recordVars, clock, all_events, idx, valid_events, invalid_events,
                   canonical_event, driver, outputs, apiVars, db>>

\* one iteration of the loop of lines 99-197: one raw file.  dbfail is the record
\* whose statement the database refuses, Len + 1 stands for a commit that fails
LoadFile ==
    /\ driver = "load" /\ bpc = "loop" /\ idx < Len(all_events)
    /\ LET file == all_events[idx + 1]
           records == file.records
           opened == calls \o <<Call("open", "file", idx + 1)>>
       IN  IF file.kind # "list"
           THEN \* lines 108-112: skipped
                /\ calls' = opened /\ idx' = idx + 1
                /\ UNCHANGED <<db, bpc, raised>>
           ELSE IF records = <<>>
           THEN \* lines 119-123, 194-197: ValueError, rollback, re-raised
                /\ calls' = opened \o RollbackAndClose
                /\ bpc' = "failed" /\ raised' = "ValueError"
                /\ UNCHANGED <<db, idx>>
           ELSE \E dbfail \in 0..(Len(records) + 1) :
                  LET done == RecordsInserted(records, dbfail)
                      executes == LoadExecutes(records, done)
                      error_count == IF FirstError(records, dbfail) <= Len(records)
                                     THEN 1 ELSE 0
                  IN  /\ dbfail \in 1..Len(records) =>
                             FirstError(records, dbfail) = dbfail
                      /\ dbfail = Len(records) + 1 => error_count = 0
                      /\ IF error_count # 0
                         THEN \* lines 178-184: rollback, next file
                              /\ calls' = opened \o executes \o <<Rollback>>
                              /\ idx' = idx + 1
                              /\ UNCHANGED <<db, bpc, raised>>
                         ELSE IF dbfail = Len(records) + 1
                         THEN \* conn.commit() raises: lines 194-197
                              /\ calls' = opened \o executes \o RollbackAndClose
                              /\ bpc' = "failed" /\ raised' = "Exception"
                              /\ UNCHANGED <<db, idx>>
                         ELSE \* lines 174-177
                              /\ calls' = opened \o executes \o <<Commit>>
                              /\ db' = db \cup {LoadRow(records[j]) : j \in done}
                              /\ idx' = idx + 1
                              /\ UNCHANGED <<bpc, raised>>
    /\ UNCHANGED <<recordVars, clock, all_events, valid_events, invalid_events,
                   canonical_event, driver, outputs, apiVars>>

\* lines 199-234: the dead-letter files are read and counted, errors are logged;
\* the finally block closes the cursor and the connection
LoadFinish ==
    /\ driver = "load" /\ bpc = "loop" /\ idx = Len(all_events)
    /\ calls' = calls \o <<CloseCursor, CloseConn>>
    /\ bpc' = "done"
    /\ UNCHANGED <<recordVars, clock, all_events, idx, valid_events, invalid_events,
                   canonical_event, raised, driver, outputs, apiVars, db>>

NextLoad == LoadStart \/ LoadFile \/ LoadFinish

SpecLoad == InitLoad /\ [][NextLoad]_vars

----------------------------------------------------------------------------
(* properties of the load *)

\* a step of the loop over the raw files, and the calls it makes
FileStep == driver = "load" /\ bpc = "loop" /\ idx < Len(all_events) /\ calls' # calls

CleanRecords(file) ==
    file.kind = "list" /\ \A j \in DOMAIN file.records :
                              LoadRecordError(file.records[j]) = ""

\* what the step of one file does to the database
FileAtomicity ==
    FileStep =>
        LET file == all_events[idx + 1]
            made == SubSeq(calls', Len(calls) + 2, Len(calls'))
            executed == {i \in DOMAIN made : made[i].op = "execute"}
            committed == \E i \in DOMAIN made : made[i] = Commit
            rolled == \E i \in DOMAIN made : made[i] = Rollback
        IN  \* the inserts are those of records 1..n, in order, before anything else
            /\ \A i \in executed :
                   made[i] = Call("execute", "raw.security_logs", i)
                   /\ LoadRecordError(file.records[i]) = ""
            \* no insert is made beyond a record that raises
            /\ \A j \in DOMAIN file.records :
                   LoadRecordError(file.records[j]) # "" =>
                       \A i \in executed : i < j
            \* commit: every record of the file was inserted
            /\ committed =>
                   /\ CleanRecords(file) /\ ~rolled
                   /\ Cardinality(executed) = Len(file.records)
                   /\ db' = db \cup {LoadRow(file.records[j]) : j \in DOMAIN file.records}
            \* otherwise nothing of the file is kept, earlier files stay
            /\ ~committed => db' = db
            \* a record failed: rollback, and the loop goes on with the next file
            /\ (file.kind = "list" /\ file.records # <<>>
                   /\ Cardinality(executed) < Len(file.records)) =>
                   /\ rolled /\ ~committed /\ made[Len(made)] = Rollback
                   /\ idx' = idx + 1 /\ bpc' = "loop" /\ raised' = ""

\* the database holds rows of files whose records were all clean, and of no other
OnlyCleanFilesCommitted ==
    driver = "load" =>
        \A row \in db :
            \E i \in 1..idx :
                /\ CleanRecords(all_events[i])
                /\ \E j \in DOMAIN all_events[i].records :
                       LoadRow(all_events[i].records[j]) = row

\* C23: in load_json_to_postgres the inserts of a raw file are committed only if
\* every record of the file was processed without error; at the first record-level
\* error the rest of the file is skipped, the inserts of the file are rolled back,
\* the files committed before stay committed and the loop goes on to the next file.
C23_FileAtomicity ==
    /\ []OnlyCleanFilesCommitted
    /\ [][FileAtomicity]_vars

\* the second file failed at its second record after the first file was committed,
\* and the run ended
C23_Witness ==
    /\ driver = "load" /\ bpc = "done" /\ Len(all_events) = 2
    /\ all_events[1] = ListFile(<<generate_valid_event(1), generate_valid_event(2)>>)
    /\ Len(all_events[2].records) = 3
    /\ Cardinality(db) = 2
    /\ Cardinality(Positions("execute")) = 3
    /\ Cardinality(Positions("rollback")) = 1 /\ Cardinality(Positions("commit")) = 1

----------------------------------------------------------------------------
(* from the generator to the validator: one event of a batch response is mapped by
   build_raw_security_log and validated, at once or some time later *)

\* random.randint(0, 59): the minutes generate_timestamp() subtracts
GeneratedMinutes == {0, 59}

\* generate_event_type(), generate_random_severity()
GeneratedTypes == {"unauthorized_login", "port_scan"}
GeneratedSeverities == {"low", "medium", "high", "critical"}

\* event_descriptions.get(event_type, ...)
generate_random_description(event_type) ==
    CASE event_type = "unauthorized_login" -> "Failed SSH login attempt detected."
      [] event_type = "port_scan" -> "Suspicious port scanning activity observed."
      [] OTHER -> "Suspicious activity detected."

\* generate_public_ip(), generate_private_ip(): the shortest and longest texts, and
\* one in between
PublicIps  == {"1.0.0.1", "45.19.34.10", "223.255.255.254"}
PrivateIps == {"10.0.0.5", "192.168.255.254"}

\* the events generate_valid_event() returns at the instant t
GeneratedAt(t) ==
    {Dict([EmptyMap EXCEPT
         !["event_id"] = generate_unique_event_id(1),
         !["timestamp"] = TimeZ(t - 60 * m),
         !["source_ip"] = Str(<<src>>),
         !["destination_ip"] = Str(<<dst>>),
         !["event_type"] = Str(<<type>>),
         !["severity"] = Str(<<sev>>),
         !["description"] = Str(<<generate_random_description(type)>>)]) :
       m \in GeneratedMinutes, src \in PublicIps, dst \in PrivateIps,
       type \in GeneratedTypes, sev \in GeneratedSeverities}

\* every corruption generate_invalid_event() chooses from
AllCorruptions ==
    {<<"missing_field", k>> : k \in {"timestamp", "source_ip", "destination_ip",
                                     "event_type", "severity", "description"}}
    \cup {<<c, "">> : c \in {"bad_source_ip", "bad_destination_ip", "bad_timestamp",
                              "bad_type"}}

\* the time between the response of the API and the validation of its events
Delays == {0, Retention - 1, Retention, Retention + SecondsPerDay - 3600,
           Retention + SecondsPerDay}

InitGen ==
    /\ data = NonDict("none") /\ orig = NonDict("none") /\ raw_in = NonDict("none")
    /\ outcome = NoOutcome /\ now = NotSampled /\ first = NoFirst
    /\ vpc = "generate" /\ clock = Now0
    /\ BatchIdle /\ ApiIdle /\ DbIdle

\* GET /events/batch?size=1 with fault_rate 0 or 1: the one event of the response,
\* valid or corrupted, with every choice of the generator drawn
ServeOne ==
    /\ vpc = "generate"
    /\ \E event \in GeneratedAt(clock), c \in AllCorruptions \cup {<<"none", "">>} :
         LET valid == c[1] = "none"
             rate == IF valid THEN <<0, 1>> ELSE <<1, 1>>
             served == IF valid THEN event ELSE Corrupt(event, c)
         IN  /\ raw_in' = served
             /\ event_store' = IF valid THEN <<served>> ELSE <<>>
             /\ response' =
                  [Answer("batch", 200, API_KEY) EXCEPT
                      !.size = 1, !.fault_rate = rate,
                      !.valid_events = 1 - InvalidCount(1, rate),
                      !.invalid_events = InvalidCount(1, rate),
                      !.events = <<served>>,
                      !.at = clock]
    /\ issued' = 1
    /\ vpc' = "served"
    /\ UNCHANGED <<data, orig, outcome, now, first, clock, batchVars, dbVars>>

\* the pipeline picks the event up after some time
Wait ==
    /\ vpc = "served"
    /\ \E d \in Delays : clock' = clock + d
    /\ vpc' = "raw"
    /\ UNCHANGED <<data, orig, raw_in, outcome, now, first, batchVars, apiVars, dbVars>>

NextGen == ServeOne \/ Wait \/ BuildRaw \/ Validate

SpecGen == InitGen /\ [][NextGen]_vars

----------------------------------------------------------------------------
(* properties of generated events *)

ServedValid   == response.kind = "batch" /\ response.valid_events = 1
ServedInvalid == response.kind = "batch" /\ response.invalid_events = 1

\* the validation was called less than 90 days after the event was generated
Timely == CallClock - response.at < Retention

\* C26: every event of generate_invalid_event, whichever corruption was chosen, is
\* rejected when it is mapped by build_raw_security_log and validated by
\* validate_raw_event: the record is rejected exactly when the API counted it in
\* invalid_events.
C26_CorruptedRejected ==
    (Done /\ ServedInvalid) => ~Accepted

\* the same for every corruption but the removed description
C26_ExceptDescription ==
    (Done /\ ServedInvalid /\ Has(raw_in, "description")) => ~Accepted

\* a corrupted event that is accepted
C26_Accepted ==
    /\ Done /\ ServedInvalid /\ Timely /\ Accepted /\ ~Has(raw_in, "description")
    /\ data.f["message"] = Str(<<"No message provided">>)

C27_WitnessStale ==
    Done /\ ServedValid /\ ~Timely /\ RejectedWith(StaleMsg)

====
